---- MODULE Spec2Model ----
(***************************************************************************)
(* A model of the containers of src/src/3rdparty/ftg_containers.h: the     *)
(* chained hash index (ftgc_hashindex), the variant's owned string and     *)
(* the string-keyed dictionary (ftgc_dict) built from them.                *)
(*                                                                         *)
(* Memory is modelled explicitly: heap maps an address to a cell, a cell   *)
(* carries a live flag, FTGC_FREE leaves a dead cell behind, FTGC_MALLOC   *)
(* hands out the lowest address that is not live.  A call that reads or    *)
(* frees a dead cell is undefined behaviour: it is recorded in ub and the  *)
(* behaviour ends there (crashed), whatever the build would do next.       *)
(* C strings are sequences of character codes without the terminator; a    *)
(* read past the end of a string yields the terminator 0.                  *)
(***************************************************************************)
EXTENDS Integers, Sequences, FiniteSets, TLC

VARIABLES
    heap,       \* address -> cell (see the cell constructors below)
    dict,       \* the ftgc_dict_s under test, hash_index embedded
    table,      \* the stand-alone ftgc_hashindex_s under test
    variants,   \* the stand-alone ftgc_variant_s under test, by name
    array,      \* the ftgc_array handle under test
    iter,       \* the ftgc_hashindex_iter_s of the stand-alone index
    ret,        \* the last call: its name, arguments and result
    last,       \* history: key -> value of the last SetString(key, .) that returned 1
    called,     \* history: keys SetString was ever called with
    added,      \* history: key -> value -> number of AddKey(key, value) calls
    removed,    \* history: keys an entry was removed from
    cfg,        \* history: the arguments of the Init call
    life,       \* history: "live" until the caller frees the instance, then "freed"
    oom,        \* history: number of allocations that failed so far
    ub,         \* history: undefined behaviour executed so far
    crashed,    \* the process died on undefined behaviour
    a2l__malloc_logging,    \* the logging toggle of alloc2log.c, shared by all threads
    threads,    \* per thread of the instrumented program: its stack of calls
    log         \* the records written to the log file

\* the state of the allocation logger
logger == <<a2l__malloc_logging, threads, log>>

vars == <<heap, dict, table, variants, array, iter, ret, last, called, added, removed, cfg,
          life, oom, ub, crashed, logger>>

\* no logger is loaded into the programs that use the containers alone
NoLogger == a2l__malloc_logging = 1 /\ threads = <<>> /\ log = {}

----------------------------------------------------------------------------
(* Bounds of the exploration. *)

MaxPairs == 5       \* SetString is explored while num_pairs is below this
MaxOom == 1         \* allocations that may fail in one behaviour
MaxAdds == 4        \* AddKey calls explored on one index
MaxCalls == 2       \* key generations explored on one index

----------------------------------------------------------------------------
(* Program constants. *)

FTGC_HASHINDEX_UNUSED == -1
FTGC_HASHINDEX_DELETED == -2
FTGC_DICT_KEY_BYTES == 9
FTGC_VARTYPE_VOID == 0
FTGC_VARTYPE_VOIDPTR == 1
FTGC_VARTYPE_BOOL == 2
FTGC_VARTYPE_SINT32 == 3
FTGC_VARTYPE_UINT32 == 4
FTGC_VARTYPE_FLOAT == 5
FTGC_VARTYPE_VEC2 == 6
FTGC_VARTYPE_VEC3 == 7
FTGC_VARTYPE_STRING == 8

NULL == 0
NullNode == [blk |-> 0, off |-> 0]     \* a NULL struct ftgc__hashlink_s *

\* TLC's integers are 32 bits wide and signed: an unsigned 32-bit word is
\* kept as two 16-bit halves wherever it can exceed 2^31 - 1
Half == 2^16

----------------------------------------------------------------------------
(* 32-bit bitwise operators on non-negative integers. *)

RECURSIVE And32(_, _)
And32(a, b) ==
    IF a = 0 \/ b = 0 THEN 0
    ELSE (a % 2) * (b % 2) + 2 * And32(a \div 2, b \div 2)

RECURSIVE Or32(_, _)
Or32(a, b) ==
    IF a = 0 THEN b
    ELSE IF b = 0 THEN a
    ELSE (IF a % 2 = 1 \/ b % 2 = 1 THEN 1 ELSE 0) + 2 * Or32(a \div 2, b \div 2)

RECURSIVE Xor32(_, _)
Xor32(a, b) ==
    IF a = 0 THEN b
    ELSE IF b = 0 THEN a
    ELSE ((a + b) % 2) + 2 * Xor32(a \div 2, b \div 2)

Not16(a) == Half - 1 - a

----------------------------------------------------------------------------
(* The heap. *)

Cell(c) == c @@ [live |-> TRUE]

IsLive(h, p) == p \in DOMAIN h /\ h[p].live

\* FTGC_MALLOC: the lowest address that is not live
NewAddr(h) ==
    LET n == Len(h) + 1
    IN  CHOOSE a \in 1..n :
            /\ ~IsLive(h, a)
            /\ \A b \in 1..(a - 1) : IsLive(h, b)

\* addresses are handed out in order, so the heap is a sequence of cells
Store(h, p, c) == IF p \in DOMAIN h THEN [h EXCEPT ![p] = c] ELSE Append(h, c)

FreeCell == [live |-> FALSE, kind |-> "free"]

\* FTGC_FREE: free(NULL) does nothing
Release(h, p) ==
    IF p = NULL \/ p \notin DOMAIN h THEN h
    ELSE [h EXCEPT ![p] = FreeCell]

\* the undefined behaviour a free(p) executes
FreeUb(h, p) == IF p # NULL /\ ~IsLive(h, p) THEN {"double_free"} ELSE {}

----------------------------------------------------------------------------
(* The keys of the model. *)

Key_a == <<97>>
Key_A == <<65>>
Key_b == <<98>>
Key_c == <<99>>
Key_e == <<101>>
KeyTrunc == <<97, 97, 97, 97, 97, 97, 97, 97>>      \* FTGC_DICT_KEY_BYTES-1 characters
KeyLong == KeyTrunc \o <<101>>                      \* one character more

\* the keys of one client: five that fit the key buffer and differ under case
\* folding; a case pair and a key that shares their table slot; a key longer
\* than the buffer and its prefix; three keys of which two share a slot
KeysGrow == {Key_a, Key_b, Key_c, Key_e, KeyTrunc}
KeysFold == {Key_a, Key_A, Key_e}
KeysCase == {Key_a, Key_A}
KeysTrunc == {KeyTrunc, KeyLong}
KeysOom == {Key_a, Key_b, Key_e}
Keys == KeysGrow \cup KeysFold \cup KeysTrunc

----------------------------------------------------------------------------
(* hashindex.  An ftgc_hashindex_s is [table, chain, table_size, hash_mask]; *)
(* table and chain are addresses.  A node pointer is [blk, off]: off is the  *)
(* index into the chain array when blk is that array, 0 for a node of its    *)
(* own.                                                                      *)

TableCell(slots) == Cell([kind |-> "table", slots |-> slots])
ChainCell(nodes) == Cell([kind |-> "chain", nodes |-> nodes])
NodeCell(n) == Cell([kind |-> "node", node |-> n])

NodeAt(h, p) ==
    IF h[p.blk].kind = "chain" THEN h[p.blk].nodes[p.off + 1] ELSE h[p.blk].node

WriteNode(h, p, n) ==
    IF h[p.blk].kind = "chain"
    THEN [h EXCEPT ![p.blk].nodes[p.off + 1] = n]
    ELSE [h EXCEPT ![p.blk].node = n]

ShiftRight(v, n) == v \div (2^n)

ftgc__pow2_roundup(v) ==
    LET v0 == v - 1
        v1 == Or32(v0, ShiftRight(v0, 1))
        v2 == Or32(v1, ShiftRight(v1, 2))
        v3 == Or32(v2, ShiftRight(v2, 4))
        v4 == Or32(v3, ShiftRight(v3, 8))
        v5 == Or32(v4, ShiftRight(v4, 16))
    IN  v5 + 1

\* ftgc__get_chain_end that does not walk the chain
ftgc__get_chain_end_head(h, node) == node

RECURSIVE ftgc__get_chain_end(_, _)
ftgc__get_chain_end(h, node) ==
    IF NodeAt(h, node).next = NullNode THEN node
    ELSE ftgc__get_chain_end(h, NodeAt(h, node).next)

\* ftgc__is_value_in_chain that looks at the first node of the chain only
ftgc__is_value_in_chain_first(h, start, value) ==
    IF NodeAt(h, start).next = NullNode THEN 0
    ELSE IF NodeAt(h, start).value = value THEN 1
    ELSE 0

RECURSIVE ftgc__is_value_in_chain(_, _, _)
ftgc__is_value_in_chain(h, start, value) ==
    IF NodeAt(h, start).next = NullNode THEN 0
    ELSE IF NodeAt(h, start).value = value THEN 1
    ELSE ftgc__is_value_in_chain(h, NodeAt(h, start).next, value)

\* ok: the FTGC_MALLOC of the node succeeds
ftgc__append_node(h, chain_end, ok) ==
    IF ~ok THEN WriteNode(h, chain_end, [NodeAt(h, chain_end) EXCEPT !.next = NullNode])
    ELSE LET a == NewAddr(h)
             h1 == Store(h, a, NodeCell([value |-> FTGC_HASHINDEX_UNUSED, next |-> NullNode]))
         IN  WriteNode(h1, chain_end,
                       [NodeAt(h1, chain_end) EXCEPT !.next = [blk |-> a, off |-> 0]])

\* the successful ftgc_hashindex_init: [heap, ctx]
ftgc_hashindex_init(h, vert_size) ==
    LET size == ftgc__pow2_roundup(vert_size)
        t == NewAddr(h)
        h1 == Store(h, t, TableCell([i \in 1..size |-> FTGC_HASHINDEX_UNUSED]))
        c == NewAddr(h1)
        h2 == Store(h1, c, ChainCell([i \in 1..size |->
                  [value |-> FTGC_HASHINDEX_UNUSED, next |-> NullNode]]))
    IN  [heap |-> h2,
         ctx |-> [table |-> t, chain |-> c, table_size |-> size, hash_mask |-> size - 1]]

\* [heap, ctx, ub]
ftgc_hashindex_free(h, ctx) ==
    LET h1 == Release(h, ctx.table)
        h2 == Release(h1, ctx.chain)
    IN  [heap |-> h2,
         ctx |-> [table |-> NULL, chain |-> NULL, table_size |-> 0, hash_mask |-> 0],
         ub |-> FreeUb(h, ctx.table) \cup FreeUb(h1, ctx.chain)]

\* one turn of the loop of ftgc_hashindex_generate_key_string, on a hash
\* below 2^28 (every turn clears the top four bits):
\*   hash = (hash << 4) + c;  x = hash & 0xF0000000;
\*   if (x != 0) hash ^= x >> 24;  hash &= ~x
StrHashStep(hash, c) ==
    LET lo0 == (hash % Half) * 16
        hi0 == (hash \div Half) * 16 + lo0 \div Half
        lo1 == (lo0 % Half) + c
        hi1 == (hi0 + lo1 \div Half) % Half
        lo2 == lo1 % Half
        xhi == And32(hi1, 15 * 2^12)
        lo3 == IF xhi # 0 THEN Xor32(lo2, ShiftRight(xhi, 8)) ELSE lo2
        hi3 == And32(hi1, Not16(xhi))
    IN  hi3 * Half + lo3

RECURSIVE StrHash(_, _, _)
StrHash(str, i, hash) ==
    IF i > Len(str) THEN hash ELSE StrHash(str, i + 1, StrHashStep(hash, str[i]))

\* the hash of every key of the model before the mask, computed once
KeyHash == [str \in Keys |-> StrHash(str, 1, 0)]

ftgc_hashindex_generate_key_string(ctx, str) ==
    And32(KeyHash[str], ctx.hash_mask)

\* A 32-bit int as a word [hi, lo] of two 16-bit halves (two's complement).
INT_MAX == 2147483647

Word(v) ==
    IF v >= 0 THEN [hi |-> v \div Half, lo |-> v % Half]
    ELSE LET u == (v + INT_MAX) + 1
         IN  [hi |-> (u \div Half) + (Half \div 2), lo |-> u % Half]

Signed(w) ==
    IF w.hi >= Half \div 2 THEN (w.hi - Half) * Half + w.lo ELSE w.hi * Half + w.lo

\* value >> 16 of a signed int: the sign is shifted in
Sar16(w) == [hi |-> IF w.hi >= Half \div 2 THEN Half - 1 ELSE 0, lo |-> w.hi]

XorW(a, b) == [hi |-> Xor32(a.hi, b.hi), lo |-> Xor32(a.lo, b.lo)]

AndW(a, b) == [hi |-> And32(a.hi, b.hi), lo |-> And32(a.lo, b.lo)]

ComplW(a) == [hi |-> Not16(a.hi), lo |-> Not16(a.lo)]

\* 0x45d9f3b, and its bytes from the low one up
MixFactor == 73244475
MixBytes == <<59, 159, 93, 4>>

\* w * 0x45d9f3b as the hardware multiplies: the low 32 bits of the product
MulWrap(w) ==
    LET a == <<w.lo % 256, w.lo \div 256, w.hi % 256, w.hi \div 256>>
        c == MixBytes
        t0 == a[1] * c[1]
        t1 == a[1] * c[2] + a[2] * c[1] + t0 \div 256
        t2 == a[1] * c[3] + a[2] * c[2] + a[3] * c[1] + t1 \div 256
        t3 == a[1] * c[4] + a[2] * c[3] + a[3] * c[2] + a[4] * c[1] + t2 \div 256
    IN  [hi |-> (t3 % 256) * 256 + (t2 % 256), lo |-> (t1 % 256) * 256 + (t0 % 256)]

\* the int product w * 0x45d9f3b is not representable: signed overflow
MulOverflows(w) ==
    Signed(w) > INT_MAX \div MixFactor \/ Signed(w) < -(INT_MAX \div MixFactor)

\* [key, overflow]: key is what the call returns when the products wrap,
\* overflow tells that a product overflowed the int (undefined behaviour)
ftgc_hashindex_generate_key_int(ctx, value) ==
    LET m1 == XorW(Sar16(value), value)
        v1 == MulWrap(m1)
        m2 == XorW(Sar16(v1), v1)
        v2 == MulWrap(m2)
        v3 == XorW(Sar16(v2), v2)
    IN  [key |-> Signed(AndW(v3, Word(ctx.hash_mask))),
         overflow |-> MulOverflows(m1) \/ MulOverflows(m2)]

\* a pointer is its bytes c[0..size-1] in memory order (little endian);
\* i[0] and i[1] are the two 32-bit words of the union
PtrWord(c, n) ==
    [hi |-> c[4 * n + 4] * 256 + c[4 * n + 3], lo |-> c[4 * n + 2] * 256 + c[4 * n + 1]]

FTGC__SWAP(c, a, b) == [c EXCEPT ![a + 1] = c[b + 1], ![b + 1] = c[a + 1]]

\* [key, overflow]
ftgc_hashindex_generate_key_ptr(ctx, ptr) ==
    IF Len(ptr) = 4
    THEN ftgc_hashindex_generate_key_int(ctx, PtrWord(ptr, 0))
    ELSE LET c == FTGC__SWAP(FTGC__SWAP(ptr, 1, 5), 3, 7)
         IN  ftgc_hashindex_generate_key_int(ctx, AndW(PtrWord(c, 0), ComplW(PtrWord(c, 1))))

\* ftgc_hashindex_add_key that reports no collision for a value that is
\* in the table slot already
ftgc_hashindex_add_key_quiet(h, ctx, key, value, ok) ==
    LET slot == h[ctx.table].slots[key + 1]
        head == [blk |-> ctx.chain, off |-> key]
    IN  IF slot = FTGC_HASHINDEX_UNUSED \/ slot = FTGC_HASHINDEX_DELETED
        THEN [heap |-> [h EXCEPT ![ctx.table].slots[key + 1] = value],
              ret |-> 0, alloc |-> FALSE]
        ELSE IF slot = value
        THEN [heap |-> h, ret |-> 0, alloc |-> FALSE]
        ELSE IF ftgc__is_value_in_chain(h, head, value) = 1
        THEN [heap |-> h, ret |-> 1, alloc |-> FALSE]
        ELSE LET chain_end == ftgc__get_chain_end(h, head)
                 h1 == WriteNode(h, chain_end, [NodeAt(h, chain_end) EXCEPT !.value = value])
                 h2 == ftgc__append_node(h1, chain_end, ok)
             IN  [heap |-> h2,
                  ret |-> IF NodeAt(h2, chain_end).next = NullNode THEN -1 ELSE 1,
                  alloc |-> TRUE]

\* [heap, ret, alloc]: alloc tells whether the call reached FTGC_MALLOC
ftgc_hashindex_add_key(h, ctx, key, value, ok) ==
    LET slot == h[ctx.table].slots[key + 1]
        head == [blk |-> ctx.chain, off |-> key]
    IN  IF slot = FTGC_HASHINDEX_UNUSED \/ slot = FTGC_HASHINDEX_DELETED
        THEN [heap |-> [h EXCEPT ![ctx.table].slots[key + 1] = value],
              ret |-> 0, alloc |-> FALSE]
        ELSE IF slot = value
        THEN [heap |-> h, ret |-> 1, alloc |-> FALSE]
        ELSE IF ftgc__is_value_in_chain(h, head, value) = 1
        THEN [heap |-> h, ret |-> 1, alloc |-> FALSE]
        ELSE LET chain_end == ftgc__get_chain_end(h, head)
                 h1 == WriteNode(h, chain_end, [NodeAt(h, chain_end) EXCEPT !.value = value])
                 h2 == ftgc__append_node(h1, chain_end, ok)
             IN  [heap |-> h2,
                  ret |-> IF NodeAt(h2, chain_end).next = NullNode THEN -1 ELSE 1,
                  alloc |-> TRUE]

\* ftgc_hashindex_remove_first that empties the slot
ftgc_hashindex_remove_first_unused(h, ctx, key) ==
    [h EXCEPT ![ctx.table].slots[key + 1] = FTGC_HASHINDEX_UNUSED]

\* ftgc_hashindex_remove_first that deletes the head of the chain as well
ftgc_hashindex_remove_first_chain(h, ctx, key) ==
    LET head == [blk |-> ctx.chain, off |-> key]
        g == [h EXCEPT ![ctx.table].slots[key + 1] = FTGC_HASHINDEX_DELETED]
    IN  IF NodeAt(h, head).value >= 0
        THEN WriteNode(g, head, [NodeAt(h, head) EXCEPT !.value = FTGC_HASHINDEX_DELETED])
        ELSE g

ftgc_hashindex_remove_first(h, ctx, key) ==
    [h EXCEPT ![ctx.table].slots[key + 1] = FTGC_HASHINDEX_DELETED]

\* [iter, value]
ftgc_hashindex_iter_get_first(h, ctx, key) ==
    [iter |-> [current_node |-> [blk |-> ctx.chain, off |-> key], prev_node |-> NullNode],
     value |-> h[ctx.table].slots[key + 1]]

\* ftgc_hashindex_iter_get_next without the loop over the deleted entries
ftgc_hashindex_iter_get_next_noskip(h, it) ==
    LET cur == it.current_node
    IN  IF cur = NullNode
        THEN [iter |-> it, value |-> FTGC_HASHINDEX_UNUSED]
        ELSE [iter |-> [current_node |-> NodeAt(h, cur).next, prev_node |-> cur],
              value |-> NodeAt(h, cur).value]

RECURSIVE SkipDeleted(_, _)
SkipDeleted(h, node) ==
    IF node = NullNode THEN node
    ELSE IF NodeAt(h, node).value # FTGC_HASHINDEX_DELETED THEN node
    ELSE SkipDeleted(h, NodeAt(h, node).next)

\* [iter, value]
ftgc_hashindex_iter_get_next(h, it) ==
    LET cur == SkipDeleted(h, it.current_node)
    IN  IF cur = NullNode
        THEN [iter |-> [it EXCEPT !.current_node = cur], value |-> -1]
        ELSE [iter |-> [current_node |-> NodeAt(h, cur).next, prev_node |-> cur],
              value |-> NodeAt(h, cur).value]

\* ftgc_hashindex_iter_remove_current that deletes the node the iterator is at
ftgc_hashindex_iter_remove_current_ahead(h, it) ==
    IF it.current_node = NullNode THEN h
    ELSE WriteNode(h, it.current_node,
                   [NodeAt(h, it.current_node) EXCEPT !.value = FTGC_HASHINDEX_DELETED])

ftgc_hashindex_iter_remove_current(h, it) ==
    WriteNode(h, it.prev_node,
              [NodeAt(h, it.prev_node) EXCEPT !.value = FTGC_HASHINDEX_DELETED])

----------------------------------------------------------------------------
(* variant, as far as the dictionary uses it: the tag and the two pointers *)
(* of val_str.  A string buffer is a cell of kind "str".                   *)

StrCell(s) == Cell([kind |-> "str", str |-> s])

ftgc_variant_init ==
    [field_type |-> FTGC_VARTYPE_VOID, external_storage |-> NULL, internal_storage |-> NULL]

\* [heap, var, ub]
FTGC__VARIANT_CLEAR(h, x) ==
    LET owns == x.field_type = FTGC_VARTYPE_STRING /\ x.internal_storage # NULL
    IN  [heap |-> IF owns THEN Release(h, x.internal_storage) ELSE h,
         var |-> ftgc_variant_init,
         ub |-> IF owns THEN FreeUb(h, x.internal_storage) ELSE {}]

\* [heap, var, ret, ub]; ok: the FTGC_MALLOC of the copy succeeds
ftgc_variant_set_string(h, x, str, ok) ==
    LET c == FTGC__VARIANT_CLEAR(h, x)
        a == NewAddr(c.heap)
    IN  IF ~ok
        THEN [heap |-> c.heap,
              var |-> [c.var EXCEPT !.field_type = FTGC_VARTYPE_STRING],
              ret |-> 0, ub |-> c.ub]
        ELSE [heap |-> Store(c.heap, a, StrCell(str)),
              var |-> [c.var EXCEPT !.field_type = FTGC_VARTYPE_STRING,
                                    !.internal_storage = a],
              ret |-> 1, ub |-> c.ub]

ftgc_variant_get_string(x) ==
    IF x.external_storage # NULL THEN x.external_storage ELSE x.internal_storage

\* [heap, var, ub]
ftgc_variant_free(h, x) ==
    LET owns == x.field_type = FTGC_VARTYPE_STRING /\ x.internal_storage # NULL
    IN  [heap |-> IF owns THEN Release(h, x.internal_storage) ELSE h,
         var |-> ftgc_variant_init,
         ub |-> IF owns THEN FreeUb(h, x.internal_storage) ELSE {}]

\* The other members of the union lie on the bytes of val_str (pointers of
\* 8 bytes): val_ptr, val_bool, val_sint32, val_uint32, val_float3[0] and
\* val_float3[1] on external_storage, val_float3[2] on internal_storage.
\* A 32-bit member is kept as the int of its bit pattern, a float as one of
\* the codes Floats (0 is 0.0f), two floats in one pointer as
\* f0 + FloatRadix * f1.
Floats == {0, 1, 2}
FloatRadix == Cardinality(Floats)

\* [heap, var, ub]: FTGC__VARIANT_CLEAR, then the tag and the bytes written
SetMember(h, x, type, low, high) ==
    LET c == FTGC__VARIANT_CLEAR(h, x)
    IN  [heap |-> c.heap,
         var |-> [field_type |-> type, external_storage |-> low, internal_storage |-> high],
         ub |-> c.ub]

ftgc_variant_set_void_ptr(h, x, ptr) == SetMember(h, x, FTGC_VARTYPE_VOIDPTR, ptr, NULL)

ftgc_variant_set_bool(h, x, v) ==
    SetMember(h, x, FTGC_VARTYPE_BOOL, IF v # 0 THEN 1 ELSE 0, NULL)

ftgc_variant_set_sint32(h, x, v) == SetMember(h, x, FTGC_VARTYPE_SINT32, v, NULL)

\* v: the ftgc_uint32 as a word [hi, lo]
ftgc_variant_set_uint32(h, x, v) == SetMember(h, x, FTGC_VARTYPE_UINT32, Signed(v), NULL)

ftgc_variant_set_float(h, x, v) == SetMember(h, x, FTGC_VARTYPE_FLOAT, v, NULL)

ftgc_variant_set_vec2(h, x, v) ==
    SetMember(h, x, FTGC_VARTYPE_VEC2, v[1] + FloatRadix * v[2], NULL)

ftgc_variant_set_vec3(h, x, v) ==
    SetMember(h, x, FTGC_VARTYPE_VEC3, v[1] + FloatRadix * v[2], v[3])

ftgc_variant_set_string_ptr(h, x, p_str) ==
    SetMember(h, x, FTGC_VARTYPE_STRING, p_str, NULL)

\* ftgc_variant_set_from_variant that copies the bytes of every other
ftgc_variant_set_from_variant_shallow(h, x, other, ok) ==
    LET c == FTGC__VARIANT_CLEAR(h, x)
    IN  [heap |-> c.heap, var |-> other, ub |-> c.ub]

\* [heap, var, ub]; ok: the FTGC_MALLOC of ftgc_variant_set_string succeeds
ftgc_variant_set_from_variant(h, x, other, ok) ==
    LET c == FTGC__VARIANT_CLEAR(h, x)
    IN  IF other.field_type = FTGC_VARTYPE_STRING /\ other.internal_storage # NULL
        THEN LET r == ftgc_variant_set_string(
                          c.heap, [c.var EXCEPT !.field_type = other.field_type],
                          c.heap[other.internal_storage].str, ok)
             IN  [heap |-> r.heap, var |-> r.var, ub |-> c.ub \cup r.ub]
        ELSE [heap |-> c.heap, var |-> other, ub |-> c.ub]

ftgc_variant_get_void_ptr(x) == x.external_storage
ftgc_variant_get_bool(x) == x.external_storage
ftgc_variant_get_sint32(x) == x.external_storage
\* the return type is int
ftgc_variant_get_uint32(x) == x.external_storage
ftgc_variant_get_float(x) == x.external_storage % FloatRadix
ftgc_variant_get_vec2(x) ==
    <<x.external_storage % FloatRadix, x.external_storage \div FloatRadix>>
ftgc_variant_get_vec3(x) ==
    <<x.external_storage % FloatRadix, x.external_storage \div FloatRadix,
      x.internal_storage>>

----------------------------------------------------------------------------
(* dict.  An ftgc_dict_s is [dict_size, num_pairs, keys, values,           *)
(* hash_index]; keys and values are the addresses of pairs.keys and        *)
(* pairs.values.  The keys block is a sequence of key buffers, one string  *)
(* each; a buffer the code has not written yet holds Uninit.               *)

Uninit == <<-1>>
NullStr == "(null)"     \* what a caller reads through a NULL char *

KeysCell(slots) == Cell([kind |-> "keys", keys |-> slots])
ValuesCell(vals) == Cell([kind |-> "values", vals |-> vals])

CharAt(s, i) == IF i <= Len(s) THEN s[i] ELSE 0

tolower(c) == IF c >= 65 /\ c <= 90 THEN c + 32 ELSE c

PtrStr(h, p) == IF p = NULL THEN NullStr ELSE h[p].str

\* ftgc_dict_init with the index sized by hash_size
ftgc_dict_init_hash_size(h, size, hash_size) ==
    LET hi == ftgc_hashindex_init(h, hash_size)
        k == NewAddr(hi.heap)
        h1 == Store(hi.heap, k, KeysCell([i \in 1..size |-> Uninit]))
        v == NewAddr(h1)
        h2 == Store(h1, v, ValuesCell([i \in 1..size |-> ftgc_variant_init]))
    IN  [heap |-> h2,
         ctx |-> [dict_size |-> size, num_pairs |-> 0, keys |-> k, values |-> v,
                  hash_index |-> hi.ctx]]

\* [heap, ctx]
ftgc_dict_init(h, size, hash_size) ==
    LET hs == IF hash_size < size THEN size ELSE hash_size
        hi == ftgc_hashindex_init(h, size)
        k == NewAddr(hi.heap)
        h1 == Store(hi.heap, k, KeysCell([i \in 1..size |-> Uninit]))
        v == NewAddr(h1)
        h2 == Store(h1, v, ValuesCell([i \in 1..size |-> ftgc_variant_init]))
    IN  [heap |-> h2,
         ctx |-> [dict_size |-> size, num_pairs |-> 0, keys |-> k, values |-> v,
                  hash_index |-> hi.ctx]]

\* [heap, ctx, ub]
ftgc_dict_free(h, ctx) ==
    LET h1 == IF ctx.keys # NULL THEN Release(h, ctx.keys) ELSE h
        h2 == IF ctx.values # NULL THEN Release(h1, ctx.values) ELSE h1
        hf == ftgc_hashindex_free(h2, ctx.hash_index)
    IN  [heap |-> hf.heap,
         ctx |-> [ctx EXCEPT !.hash_index = hf.ctx],
         ub |-> FreeUb(h, ctx.keys) \cup FreeUb(h1, ctx.values) \cup hf.ub]

RECURSIVE keycmp_loop(_, _, _)
keycmp_loop(s1, s2, i) ==
    LET result == tolower(CharAt(s1, i)) - tolower(CharAt(s2, i))
    IN  IF result # 0 \/ CharAt(s1, i) = 0 THEN result
        ELSE keycmp_loop(s1, s2, i + 1)

\* ftgc__keycmp on the first character only
ftgc__keycmp_first(s1, s2) == tolower(CharAt(s1, 1)) - tolower(CharAt(s2, 1))

\* FTGC_DICT_CASE_SENSITIVE is 0
ftgc__keycmp(s1, s2) == keycmp_loop(s1, s2, 1)

RECURSIVE find_index_loop(_, _, _, _, _)
find_index_loop(h, ctx, key, i, it) ==
    IF i = FTGC_HASHINDEX_UNUSED THEN FTGC_HASHINDEX_UNUSED
    ELSE IF i # FTGC_HASHINDEX_DELETED /\ ftgc__keycmp(key, h[ctx.keys].keys[i + 1]) = 0
    THEN i
    ELSE LET n == ftgc_hashindex_iter_get_next(h, it)
         IN  find_index_loop(h, ctx, key, n.value, n.iter)

ftgc__dict_find_index_for_key(h, ctx, key) ==
    LET hash == ftgc_hashindex_generate_key_string(ctx.hash_index, key)
        f == ftgc_hashindex_iter_get_first(h, ctx.hash_index, hash)
    IN  find_index_loop(h, ctx, key, f.value, f.iter)

ReallocOutcomes == {"same", "move", "fail"}

\* FTGC_REALLOC(p, .) to a block holding cell: [heap, ptr]
Realloc(h, p, outcome, cell) ==
    IF outcome = "fail" THEN [heap |-> h, ptr |-> NULL]
    ELSE IF outcome = "same" THEN [heap |-> Store(h, p, cell), ptr |-> p]
    ELSE LET a == NewAddr(h)
         IN  [heap |-> Release(Store(h, a, cell), p), ptr |-> a]

\* ftgc__dict_reallocate with the key array allocated anew, its contents not
\* carried over
ftgc__dict_reallocate_fresh(h, ctx, new_size, rk, rv) ==
    LET old_vals == h[ctx.values].vals
        new_keys == Realloc(h, ctx.keys, rk, KeysCell([i \in 1..new_size |-> Uninit]))
        new_values == Realloc(new_keys.heap, ctx.values, rv, ValuesCell([i \in 1..new_size |->
                        IF i <= ctx.dict_size /\ i <= Len(old_vals) THEN old_vals[i]
                        ELSE ftgc_variant_init]))
    IN  IF new_keys.ptr = NULL THEN [heap |-> h, ctx |-> ctx, ret |-> 0]
        ELSE IF new_values.ptr = NULL THEN [heap |-> new_keys.heap, ctx |-> ctx, ret |-> 0]
        ELSE [heap |-> new_values.heap,
              ctx |-> [ctx EXCEPT !.keys = new_keys.ptr, !.values = new_values.ptr,
                                  !.dict_size = new_size],
              ret |-> 1]

\* ftgc__dict_reallocate that makes a new index of the new size as well
ftgc__dict_reallocate_resize(h, ctx, new_size, rk, rv) ==
    LET old_keys == h[ctx.keys].keys
        old_vals == h[ctx.values].vals
        new_keys == Realloc(h, ctx.keys, rk, KeysCell([i \in 1..new_size |->
                        IF i <= Len(old_keys) THEN old_keys[i] ELSE Uninit]))
        new_values == Realloc(new_keys.heap, ctx.values, rv, ValuesCell([i \in 1..new_size |->
                        IF i <= ctx.dict_size /\ i <= Len(old_vals) THEN old_vals[i]
                        ELSE ftgc_variant_init]))
    IN  IF new_keys.ptr = NULL THEN [heap |-> h, ctx |-> ctx, ret |-> 0]
        ELSE IF new_values.ptr = NULL THEN [heap |-> new_keys.heap, ctx |-> ctx, ret |-> 0]
        ELSE LET index == ftgc_hashindex_init(new_values.heap, new_size)
             IN  [heap |-> index.heap,
                  ctx |-> [ctx EXCEPT !.keys = new_keys.ptr, !.values = new_values.ptr,
                                      !.dict_size = new_size,
                                      !.hash_index = index.ctx],
                  ret |-> 1]

\* [heap, ctx, ret]; rk, rv: the outcomes of the two FTGC_REALLOC calls
ftgc__dict_reallocate(h, ctx, new_size, rk, rv) ==
    LET old_keys == h[ctx.keys].keys
        old_vals == h[ctx.values].vals
        new_keys == Realloc(h, ctx.keys, rk, KeysCell([i \in 1..new_size |->
                        IF i <= Len(old_keys) THEN old_keys[i] ELSE Uninit]))
        new_values == Realloc(new_keys.heap, ctx.values, rv, ValuesCell([i \in 1..new_size |->
                        IF i <= ctx.dict_size /\ i <= Len(old_vals) THEN old_vals[i]
                        ELSE ftgc_variant_init]))
    IN  IF new_keys.ptr = NULL THEN [heap |-> h, ctx |-> ctx, ret |-> 0]
        ELSE IF new_values.ptr = NULL THEN [heap |-> new_keys.heap, ctx |-> ctx, ret |-> 0]
        ELSE [heap |-> new_values.heap,
              ctx |-> [ctx EXCEPT !.keys = new_keys.ptr, !.values = new_values.ptr,
                                  !.dict_size = new_size],
              ret |-> 1]

\* [ctx, slot]
\* the same search, handing out the slot past the pairs without counting it
ftgc__dict_find_empty_slot_uncounted(h, ctx) ==
    LET empty == {i \in 0..(ctx.num_pairs - 1) : CharAt(h[ctx.keys].keys[i + 1], 1) = 0}
    IN  IF empty # {}
        THEN [ctx |-> ctx, slot |-> CHOOSE i \in empty : \A j \in empty : i <= j]
        ELSE [ctx |-> ctx, slot |-> ctx.num_pairs]

ftgc__dict_find_empty_slot(h, ctx) ==
    LET empty == {i \in 0..(ctx.num_pairs - 1) : CharAt(h[ctx.keys].keys[i + 1], 1) = 0}
    IN  IF empty # {}
        THEN [ctx |-> ctx, slot |-> CHOOSE i \in empty : \A j \in empty : i <= j]
        ELSE [ctx |-> [ctx EXCEPT !.num_pairs = ctx.num_pairs + 1], slot |-> ctx.num_pairs]

RECURSIVE set_key_loop(_, _, _)
set_key_loop(src, i, dst) ==
    IF CharAt(src, i + 1) # 0 /\ i < FTGC_DICT_KEY_BYTES - 1
    THEN set_key_loop(src, i + 1, Append(dst, src[i + 1]))
    ELSE dst

\* the string left in the key buffer
ftgc__dict_set_key(src) == set_key_loop(src, 0, <<>>)

ftgc_dict_get_string(h, ctx, key, fallback_string) ==
    LET index == ftgc__dict_find_index_for_key(h, ctx, key)
    IN  IF index # FTGC_HASHINDEX_UNUSED
        THEN PtrStr(h, ftgc_variant_get_string(h[ctx.values].vals[index + 1]))
        ELSE fallback_string

----------------------------------------------------------------------------
(* The dictionary under test: the inputs and the calls. *)

Values == {"x", "y"}
Fallback == "fallback"
None == "(none)"

\* one value per key, as the test writes "num <i>" under the key "<i>"
OwnValue == (Key_a :> "va") @@ (Key_b :> "vb") @@ (Key_c :> "vc") @@ (Key_e :> "ve")
                @@ (KeyTrunc :> "vt")
AllValues == Values \cup {OwnValue[k] : k \in DOMAIN OwnValue}

\* the clients: the (size, hash_size) ftgc_dict_init is called with, the keys
\* the client uses afterwards, the values it stores under each key and the
\* number of allocations that fail on it
Client(size, hash_size, keys, vals, budget) ==
    [size |-> size, hash_size |-> hash_size, keys |-> keys, vals |-> vals,
     budget |-> budget]

Clients ==
    {Client(4, 4, KeysGrow, [k \in KeysGrow |-> {OwnValue[k]}], 0),
     Client(4, 4, KeysFold, [k \in KeysFold |-> Values], 0),
     Client(64, 4, KeysCase, [k \in KeysCase |-> Values], 0),
     Client(4, 4, KeysTrunc, [k \in KeysTrunc |-> Values], 0),
     Client(2, 2, KeysOom, [k \in KeysOom |-> {OwnValue[k]}], MaxOom),
     Client(3, 2, {Key_a}, [k \in {Key_a} |-> Values], 0)}

NoTable == [table |-> NULL, chain |-> NULL, table_size |-> 0, hash_mask |-> 0]
NoIter == [current_node |-> NullNode, prev_node |-> NullNode]
NoRet == [op |-> "Init", key |-> <<>>, val |-> "", res |-> 0, str |-> "", fails |-> {}]

EmptyHeap == <<>>

DictInit ==
    \E c \in Clients :
        LET r == ftgc_dict_init(EmptyHeap, c.size, c.hash_size)
        IN  /\ heap = r.heap
            /\ dict = r.ctx
            /\ cfg = c
            /\ table = NoTable
            /\ iter = NoIter
            /\ variants = <<>>
            /\ array = NULL
            /\ NoLogger
            /\ ret = NoRet
            /\ last = [k \in Keys |-> None]
            /\ called = {}
            /\ added = <<>>
            /\ removed = {}
            /\ life = "live"
            /\ oom = 0
            /\ ub = {}
            /\ crashed = FALSE

\* one of the pointers of the dictionary leads to freed memory
DictDangling(h, ctx) ==
    \/ ~IsLive(h, ctx.keys)
    \/ ~IsLive(h, ctx.values)
    \/ ~IsLive(h, ctx.hash_index.table)
    \/ ~IsLive(h, ctx.hash_index.chain)

HistoryUnchanged == UNCHANGED <<table, variants, logger, array, iter, added, removed, cfg, life>>

\* the return of ftgc_dict_set_string
SetReturn(h, ctx, key, value, res, fails, newub) ==
    /\ oom + Cardinality(fails) <= cfg.budget
    /\ heap' = h
    /\ dict' = ctx
    /\ ret' = [NoRet EXCEPT !.op = "SetString", !.key = key, !.val = value,
                            !.res = res, !.fails = fails]
    /\ last' = IF res = 1 THEN [last EXCEPT ![key] = value] ELSE last
    /\ called' = called \cup {key}
    /\ oom' = oom + Cardinality(fails)
    /\ ub' = ub \cup newub
    /\ crashed' = FALSE
    /\ HistoryUnchanged

\* ftgc_dict_set_string from the choice of the target slot on
SetStringStore(h, ctx, key, value, index) ==
    LET fe == IF index = FTGC_HASHINDEX_UNUSED
              THEN ftgc__dict_find_empty_slot(h, ctx)
              ELSE [ctx |-> ctx, slot |-> index]
        target == fe.slot
        h1 == [h EXCEPT ![ctx.keys].keys[target + 1] = ftgc__dict_set_key(key)]
        hash == ftgc_hashindex_generate_key_string(ctx.hash_index, key)
    IN  \E str_ok \in BOOLEAN, node_ok \in BOOLEAN :
            LET vs == ftgc_variant_set_string(h1, h1[ctx.values].vals[target + 1],
                                              value, str_ok)
                h2 == [vs.heap EXCEPT ![ctx.values].vals[target + 1] = vs.var]
                ak == ftgc_hashindex_add_key(h2, ctx.hash_index, hash, target, node_ok)
                fails == (IF str_ok THEN {} ELSE {"str"})
                            \cup (IF node_ok THEN {} ELSE {"node"})
            IN  /\ ~node_ok => ak.alloc
                /\ SetReturn(ak.heap, fe.ctx, key, value,
                             IF ak.ret = -1 THEN 0 ELSE 1, fails,
                             vs.ub)

SetString(key, value) ==
    /\ life = "live"
    /\ ~crashed
    /\ ~DictDangling(heap, dict)
    /\ LET index == ftgc__dict_find_index_for_key(heap, dict, key)
       IN  /\ index = FTGC_HASHINDEX_UNUSED => dict.num_pairs < MaxPairs
           /\ IF index = FTGC_HASHINDEX_UNUSED /\ dict.num_pairs = dict.dict_size
              THEN \E rk \in ReallocOutcomes, rv \in ReallocOutcomes :
                        LET r == ftgc__dict_reallocate(heap, dict,
                                     dict.dict_size + FTGC_DICT_KEY_BYTES, rk, rv)
                        IN  /\ rk = "fail" => rv = "same"
                            /\ IF r.ret = 0
                               THEN SetReturn(r.heap, r.ctx, key, value, 0,
                                              IF rk = "fail" THEN {"keys"} ELSE {"values"}, {})
                               ELSE SetStringStore(r.heap, r.ctx, key, value, index)
              ELSE SetStringStore(heap, dict, key, value, index)

GetString(key) ==
    /\ life = "live"
    /\ ~crashed
    /\ ~DictDangling(heap, dict)
    /\ ret' = [NoRet EXCEPT !.op = "GetString", !.key = key,
                            !.str = ftgc_dict_get_string(heap, dict, key, Fallback)]
    /\ UNCHANGED <<heap, dict, last, called, oom, ub, crashed>>
    /\ HistoryUnchanged

\* ftgc_dict_free, also on an instance that is freed already
DictFree ==
    /\ ~crashed
    /\ LET r == ftgc_dict_free(heap, dict)
       IN  /\ heap' = r.heap
           /\ dict' = r.ctx
           /\ ub' = ub \cup r.ub
           /\ crashed' = (r.ub # {})
    /\ life' = "freed"
    /\ ret' = [NoRet EXCEPT !.op = "Free"]
    /\ UNCHANGED <<table, variants, logger, array, iter, added, removed, cfg, last, called, oom>>

\* SetString or GetString on a dictionary that holds a freed pointer
DictFault ==
    /\ life = "live"
    /\ ~crashed
    /\ DictDangling(heap, dict)
    /\ crashed' = TRUE
    /\ ub' = ub \cup {"use_after_free"}
    /\ ret' = [NoRet EXCEPT !.op = "Fault"]
    /\ UNCHANGED <<heap, dict, table, variants, logger, array, iter, added, removed, cfg, life, last,
                    called, oom>>

DictNext ==
    \/ \E key \in cfg.keys : \E value \in cfg.vals[key] : SetString(key, value)
    \/ \E key \in cfg.keys : GetString(key)
    \/ DictFree
    \/ DictFault

DictSpec == DictInit /\ [][DictNext]_vars

----------------------------------------------------------------------------
(* The vocabulary of the properties of the dictionary. *)

\* the key fits the key buffer with its terminator
Fits(k) == Len(k) <= FTGC_DICT_KEY_BYTES - 1

FoldKey(k) == [i \in 1..Len(k) |-> tolower(k[i])]

\* the two keys are equal under the case-folded comparison
FoldEqual(k1, k2) == FoldKey(k1) = FoldKey(k2)

\* the significant characters of a key
Truncated(k) == IF Fits(k) THEN k ELSE SubSeq(k, 1, FTGC_DICT_KEY_BYTES - 1)

\* the dictionary can be read: it was not freed and no call ended in
\* undefined behaviour or left a freed pointer behind
Readable == life = "live" /\ ~crashed /\ ~DictDangling(heap, dict)

\* the slots that hold a key
LiveSlots == {i \in 0..(dict.num_pairs - 1) : CharAt(heap[dict.keys].keys[i + 1], 1) # 0}

StoredKey(i) == heap[dict.keys].keys[i + 1]

\* the classes of called under the comparison
FoldClasses == {FoldKey(k) : k \in called}

\* what a client reads with GetString(key, Fallback) in this state
Get(key) == ftgc_dict_get_string(heap, dict, key, Fallback)

RECURSIVE IterRest(_, _, _)
IterRest(h, it, value) ==
    IF value = FTGC_HASHINDEX_UNUSED THEN <<>>
    ELSE LET n == ftgc_hashindex_iter_get_next(h, it)
         IN  <<value>> \o IterRest(h, n.iter, n.value)

\* the values a client gets for key from ftgc_hashindex_iter_get_first and
\* ftgc_hashindex_iter_get_next until FTGC_HASHINDEX_UNUSED
IterAll(h, ctx, key) ==
    LET f == ftgc_hashindex_iter_get_first(h, ctx, key)
    IN  IterRest(h, f.iter, f.value)

\* capacity, live_count, the keys, the values and the index of a dictionary
DictView(h, ctx) ==
    IF DictDangling(h, ctx) THEN [dangling |-> TRUE]
    ELSE [dangling |-> FALSE,
          capacity |-> ctx.dict_size,
          live_count |-> ctx.num_pairs,
          keys |-> [i \in 1..ctx.num_pairs |-> h[ctx.keys].keys[i]],
          values |-> [i \in 1..ctx.num_pairs |->
                         PtrStr(h, ftgc_variant_get_string(h[ctx.values].vals[i]))],
          index |-> [k \in 0..(ctx.hash_index.table_size - 1) |->
                         IterAll(h, ctx.hash_index, k)]]

----------------------------------------------------------------------------
(* C1: on a dictionary made by Init(4, 4), with no failing allocation, when *)
(* the keys set so far fit the key buffer and are pairwise distinct under   *)
(* the comparison, GetString returns for every key that was set the value   *)
(* most recently set under it; this holds before and after the arrays grew. *)

C1_Case ==
    /\ cfg.size = 4 /\ cfg.hash_size = 4
    /\ Readable /\ oom = 0
    /\ \A k \in called : Fits(k) /\ \A k2 \in called \ {k} : ~FoldEqual(k, k2)

C1_GrowthKeepsPairs == C1_Case => \A k \in called : Get(k) = last[k]

\* five keys were set, the arrays grew from 4 to 4 + FTGC_DICT_KEY_BYTES, and
\* a GetString returned the value of a key
C1_Witness ==
    /\ C1_Case
    /\ Cardinality(called) = 5 /\ dict.num_pairs = 5
    /\ dict.dict_size = 4 + FTGC_DICT_KEY_BYTES
    /\ ret.op = "GetString" /\ ret.key \in called /\ ret.str = last[ret.key]

(* C2: the keys of the live slots are pairwise different under the          *)
(* comparison, and there are no more live slots than keys, different under  *)
(* the comparison, that SetString was called with (a SetString of a key     *)
(* equal to a live one overwrites and does not add a slot).  Stated for     *)
(* keys that fit the buffer and calls in which no allocation fails.         *)

C2_LiveKeysUnique ==
    Readable /\ oom = 0 /\ (\A k \in called : Fits(k)) =>
        /\ \A i \in LiveSlots : \A j \in LiveSlots \ {i} :
               ~FoldEqual(StoredKey(i), StoredKey(j))
        /\ Cardinality(LiveSlots) <= Cardinality(FoldClasses)

(* C3: after SetString(k, v) succeeded, GetString(k2) returns a value set   *)
(* under a key fold-equal to k2, for every k2 fold-equal to k, whatever the *)
(* size of the table (keys that fit the buffer, no failing allocation).     *)

C3_LookupFolded ==
    Readable /\ oom = 0 =>
        \A k \in called : \A k2 \in cfg.keys :
            Fits(k) /\ FoldEqual(k, k2) =>
                Get(k2) \in {last[k3] : k3 \in {k4 \in called : FoldEqual(k4, k2)}}

(* C4: a key longer than the buffer round-trips: after SetString(k, v)      *)
(* succeeded GetString(k) returns the value last set under k, and setting k *)
(* again leaves one slot for it.                                            *)

C4_LongKeyRoundTrip ==
    Readable /\ oom = 0 =>
        \A k \in called :
            ~Fits(k) =>
                /\ Get(k) = last[k]
                /\ Cardinality({i \in LiveSlots : StoredKey(i) = ftgc__dict_set_key(k)}) <= 1

(* C5, as stated: GetString(k, fallback) returns fallback when no key equal *)
(* to k under the comparison was ever set, also when a longer key was set   *)
(* whose truncation equals k.                                               *)

C5_FallbackWhenNeverSet ==
    Readable =>
        \A k \in cfg.keys :
            (\A k2 \in called : ~FoldEqual(k2, k)) => Get(k) = Fallback

(* C5, amended: GetString(k, fallback) returns fallback when no key was set *)
(* whose significant characters equal those of k under the comparison; a    *)
(* longer key whose truncation equals k is the same key as k.               *)

C5_FallbackWhenNoTruncatedEqual ==
    Readable =>
        \A k \in cfg.keys :
            (\A k2 \in called : ~FoldEqual(Truncated(k2), Truncated(k)))
                => Get(k) = Fallback

\* GetString returned the fallback for a key that was never set, after it
\* compared the key with a stored key of the same chain
C5_Witness ==
    /\ Readable
    /\ ret.op = "GetString" /\ ret.str = Fallback
    /\ \A k2 \in called : ~FoldEqual(Truncated(k2), Truncated(ret.key))
    /\ \E k2 \in called :
           /\ last[k2] # None
           /\ ftgc_hashindex_generate_key_string(dict.hash_index, k2)
                  = ftgc_hashindex_generate_key_string(dict.hash_index, ret.key)

(* C6: a SetString in which an allocation of the key array, the value array *)
(* or a chain node fails returns 0 and leaves the dictionary as it was:     *)
(* same capacity, live_count, keys, values and index, every pointer valid.  *)

C6_FailureLeavesPriorState ==
    [][ret'.op = "SetString" /\ ret'.fails \cap {"keys", "values", "node"} # {}
          => /\ ret'.res = 0
             /\ ~DictDangling(heap', dict')
             /\ DictView(heap', dict') = DictView(heap, dict)]_vars

(* C7: SetString returns 0 exactly when an allocation of the growth or of   *)
(* the copy of the string failed, and after SetString(k, v) returned 1      *)
(* GetString(k) returns v.                                                  *)

C7_ReturnTellsFailure ==
    ret.op = "SetString" /\ Readable =>
        /\ ret.res = 0 <=> ret.fails \cap {"keys", "values", "str"} # {}
        /\ ret.res = 1 => Get(ret.key) = ret.val

(* C8, as stated: right after Init(capacity, hash_table_size) the table of  *)
(* the index has hash_table_size rounded up to a power of two slots,        *)
(* live_count is 0 and every variant of the value array is Void.            *)

C9_FreeIdempotent == life = "freed" => ub = {} /\ ~crashed

----------------------------------------------------------------------------
(* The stand-alone hashindex under test: the inputs and the calls. *)

HashValues == 0..2

\* the clients of the index: the vert_size ftgc_hashindex_init is called
\* with, the keys and the values the client uses and the number of
\* allocations that fail
HashClient(vert_size, keys, vals, budget) ==
    [vert_size |-> vert_size, keys |-> keys, vals |-> vals, budget |-> budget]

HashClients ==
    {HashClient(2, {0, 1}, {0, 1}, 0),
     HashClient(3, {3}, HashValues, MaxOom)}

NoDict == [dict_size |-> 0, num_pairs |-> 0, keys |-> NULL, values |-> NULL,
           hash_index |-> NoTable]

\* the result record of the hashindex operations: keys and values are ints
NoHashRet == [NoRet EXCEPT !.key = -1, !.val = -1]

HashInit ==
    \E c \in HashClients :
        LET r == ftgc_hashindex_init(EmptyHeap, c.vert_size)
        IN  /\ heap = r.heap
            /\ table = r.ctx
            /\ cfg = c
            /\ dict = NoDict
            /\ iter = NoIter
            /\ variants = <<>>
            /\ array = NULL
            /\ NoLogger
            /\ ret = NoHashRet
            /\ last = <<>>
            /\ called = {}
            /\ added = [k \in c.keys |-> [v \in HashValues |-> 0]]
            /\ removed = {}
            /\ life = "live"
            /\ oom = 0
            /\ ub = {}
            /\ crashed = FALSE

DictUnchanged == UNCHANGED <<dict, variants, logger, array, last, called, cfg, ub, crashed>>

\* the nodes of the overflow chain of key, the trailing one included
RECURSIVE ChainFrom(_, _)
ChainFrom(h, node) ==
    IF node = NullNode THEN <<>> ELSE <<node>> \o ChainFrom(h, NodeAt(h, node).next)

ChainNodes(h, ctx, key) == ChainFrom(h, [blk |-> ctx.chain, off |-> key])

\* the key whose chain holds node
KeyOfNode(h, ctx, node) ==
    CHOOSE k \in 0..(ctx.table_size - 1) :
        \E i \in DOMAIN ChainNodes(h, ctx, k) : ChainNodes(h, ctx, k)[i] = node

\* the number of AddKey calls so far
RECURSIVE SumOver(_, _)
SumOver(f, S) ==
    IF S = {} THEN 0
    ELSE LET x == CHOOSE y \in S : TRUE IN f[x] + SumOver(f, S \ {x})

Adds == SumOver([k \in DOMAIN added |-> SumOver(added[k], HashValues)], DOMAIN added)

AddKey(key, value) ==
    /\ life = "live"
    /\ Adds < MaxAdds
    /\ \E ok \in BOOLEAN :
           LET r == ftgc_hashindex_add_key(heap, table, key, value, ok)
           IN  /\ ~ok => r.alloc /\ oom < cfg.budget
               /\ heap' = r.heap
               /\ ret' = [NoHashRet EXCEPT !.op = "AddKey", !.key = key, !.val = value,
                                       !.res = r.ret,
                                       !.fails = IF ok THEN {} ELSE {"node"}]
               /\ oom' = IF ok THEN oom ELSE oom + 1
    /\ added' = [added EXCEPT ![key][value] = @ + 1]
    /\ UNCHANGED <<table, iter, removed, life>>
    /\ DictUnchanged

RemoveFirst(key) ==
    /\ life = "live"
    /\ heap' = ftgc_hashindex_remove_first(heap, table, key)
    /\ ret' = [NoHashRet EXCEPT !.op = "RemoveFirst", !.key = key]
    /\ removed' = removed \cup {key}
    /\ UNCHANGED <<table, iter, added, life, oom>>
    /\ DictUnchanged

IterGetFirst(key) ==
    /\ life = "live"
    /\ LET r == ftgc_hashindex_iter_get_first(heap, table, key)
       IN  /\ iter' = r.iter
           /\ ret' = [NoHashRet EXCEPT !.op = "IterGetFirst", !.key = key, !.res = r.value]
    /\ UNCHANGED <<heap, table, added, removed, life, oom>>
    /\ DictUnchanged

\* after ftgc_hashindex_iter_get_first set the iterator up
IterGetNext ==
    /\ life = "live"
    /\ iter # NoIter
    /\ LET r == ftgc_hashindex_iter_get_next(heap, iter)
       IN  /\ iter' = r.iter
           /\ ret' = [NoHashRet EXCEPT !.op = "IterGetNext", !.res = r.value]
    /\ UNCHANGED <<heap, table, added, removed, life, oom>>
    /\ DictUnchanged

\* after ftgc_hashindex_iter_get_next: prev_node is set
IterRemoveCurrent ==
    /\ life = "live"
    /\ iter.prev_node # NullNode
    /\ heap' = ftgc_hashindex_iter_remove_current(heap, iter)
    /\ ret' = [NoHashRet EXCEPT !.op = "IterRemoveCurrent"]
    /\ removed' = removed \cup {KeyOfNode(heap, table, iter.prev_node)}
    /\ UNCHANGED <<table, iter, added, life, oom>>
    /\ DictUnchanged

\* ftgc_hashindex_free, also on an index that is freed already
HashFree ==
    /\ LET r == ftgc_hashindex_free(heap, table)
       IN  /\ heap' = r.heap
           /\ table' = r.ctx
           /\ ub' = ub \cup r.ub
           /\ crashed' = (r.ub # {})
    /\ life' = "freed"
    /\ ret' = [NoHashRet EXCEPT !.op = "Free"]
    /\ UNCHANGED <<dict, variants, logger, array, iter, last, called, added, removed, cfg, oom>>

HashNext ==
    \/ \E key \in cfg.keys : \E value \in cfg.vals : AddKey(key, value)
    \/ \E key \in cfg.keys : RemoveFirst(key)
    \/ \E key \in cfg.keys : IterGetFirst(key)
    \/ IterGetNext
    \/ IterRemoveCurrent
    \/ HashFree

HashSpec == HashInit /\ [][HashNext]_vars

\* the values the client added to key
AddedValues(key) == {v \in HashValues : added[key][v] > 0}

(* C10: when only AddKey was called on a key (nothing removed from it, no   *)
(* allocation failed), iterating the key with IterGetFirst and IterGetNext  *)
(* until UNUSED yields every value that was added to it, each once, however *)
(* many times the pair was added.                                           *)

C10_Case(key) == life = "live" /\ key \notin removed /\ oom = 0

C10_EachValueOnce ==
    \A key \in cfg.keys :
        C10_Case(key) =>
            LET s == IterAll(heap, table, key)
            IN  /\ {s[i] : i \in DOMAIN s} = AddedValues(key)
                /\ Len(s) = Cardinality(AddedValues(key))

\* three values were added to a key, one of them twice, and the client's
\* iteration of that key has walked the two chained nodes to the trailing one
C10_Witness ==
    \E key \in cfg.keys :
        /\ C10_Case(key)
        /\ Cardinality(AddedValues(key)) = 3
        /\ \E v \in HashValues : added[key][v] >= 2
        /\ ret.op = "IterGetNext" /\ ret.res = FTGC_HASHINDEX_UNUSED
        /\ Len(ChainNodes(heap, table, key)) = 3
        /\ iter.prev_node = ChainNodes(heap, table, key)[3]

\* the entries held for key: the table slot, then the values of the nodes
\* of its overflow chain, in the order of the chain
Entries(h, ctx, key) ==
    LET nodes == ChainNodes(h, ctx, key)
    IN  <<h[ctx.table].slots[key + 1]>> \o [i \in 1..Len(nodes) |-> NodeAt(h, nodes[i]).value]

\* the places of the sequence s that hold a value of a caller
CallerPlaces(s) == {i \in DOMAIN s : s[i] >= 0}

(* C11: in every state reached by AddKey, RemoveFirst and IterRemoveCurrent *)
(* (no failing allocation), no value of a caller is held twice for one key, *)
(* in the table slot and the nodes of its chain together.                   *)

C11_NoValueTwice ==
    life = "live" /\ oom = 0 =>
        \A key \in cfg.keys :
            LET s == Entries(heap, table, key)
            IN  \A i \in CallerPlaces(s) : \A j \in CallerPlaces(s) :
                    s[i] = s[j] => i = j

\* the number of different (key, value) pairs added so far
EntriesAdded == SumOver([k \in DOMAIN added |-> Cardinality(AddedValues(k))], DOMAIN added)

(* C12: after AddKey calls only (nothing removed, no failing allocation),   *)
(* also when there are more entries than table slots, every pair (key,      *)
(* value) that was added is among the values the iteration of key yields    *)
(* before it returns UNUSED.                                                *)

C12_EveryPairYielded ==
    life = "live" /\ removed = {} /\ oom = 0 =>
        \A key \in cfg.keys : \A v \in AddedValues(key) :
            LET s == IterAll(heap, table, key)
            IN  \E i \in DOMAIN s : s[i] = v

\* more pairs were added than the table has slots, and the client's
\* iteration of a key with a chained value has ended at the trailing node
C12_Witness ==
    /\ life = "live" /\ removed = {} /\ oom = 0
    /\ EntriesAdded > table.table_size
    /\ ret.op = "IterGetNext" /\ ret.res = FTGC_HASHINDEX_UNUSED
    /\ \E key \in cfg.keys :
           LET nodes == ChainNodes(heap, table, key)
           IN  /\ Len(nodes) >= 2
               /\ iter.prev_node = nodes[Len(nodes)]

\* the table slot of key
Slot(h, ctx, key) == h[ctx.table].slots[key + 1]

\* the slot holds no value: it is UNUSED or DELETED
SlotFree(v) == v = FTGC_HASHINDEX_UNUSED \/ v = FTGC_HASHINDEX_DELETED

\* value is held for key, in the slot or in a node of the chain
Held(h, ctx, key, value) ==
    LET s == Entries(h, ctx, key) IN \E i \in DOMAIN s : s[i] = value

(* C13: AddKey(key, value) returns 0 exactly when table[key] was UNUSED or  *)
(* DELETED before the call, and the slot then holds value; it returns 1     *)
(* when the slot was occupied and no allocation failed, and nothing changes *)
(* when the value was held already; it returns -1 only when the allocation  *)
(* of the trailing node failed.  (Calls on an index on which no allocation  *)
(* failed before.)  So once more pairs were added than the table has slots, *)
(* nothing removed, some value is chained: its AddKey returned non-zero.    *)

C13_AddKeyResult ==
    [][ret'.op = "AddKey" /\ oom = 0 =>
          LET before == Slot(heap, table, ret'.key)
          IN  /\ ret'.res = 0 <=> SlotFree(before)
              /\ ret'.res = 0 => Slot(heap', table', ret'.key) = ret'.val
              /\ ~SlotFree(before) /\ ret'.fails = {} => ret'.res = 1
              /\ ~SlotFree(before) /\ Held(heap, table, ret'.key, ret'.val)
                    => ret'.res = 1 /\ heap' = heap
              /\ ret'.res = -1 <=> ret'.fails # {}
              /\ ret'.res \in {0, 1, -1}
              /\ removed = {} /\ oom' = 0 /\ EntriesAdded' > table.table_size
                    => \E key \in cfg.keys : Len(ChainNodes(heap', table', key)) >= 2]_vars

\* an AddKey on an occupied slot could not allocate the trailing node and
\* returned -1, after an AddKey of a held value had left the chain alone
C13_Witness ==
    /\ ret.op = "AddKey" /\ ret.res = -1 /\ ret.fails = {"node"}
    /\ ~SlotFree(Slot(heap, table, ret.key))
    /\ \E v \in HashValues : added[ret.key][v] >= 2

\* the last node of the chain of key
TrailingNode(h, ctx, key) ==
    NodeAt(h, ftgc__get_chain_end(h, [blk |-> ctx.chain, off |-> key]))

(* C14: an AddKey that reports out-of-memory leaves the index as it was:    *)
(* the entries of every key are those of before the call, so the value is   *)
(* not in the chain, and the chain of the key still ends in an UNUSED node. *)

C14_OomLeavesPriorState ==
    [][ret'.op = "AddKey" /\ ret'.res = -1 =>
          /\ \A key \in cfg.keys :
                 Entries(heap', table', key) = Entries(heap, table, key)
          /\ TrailingNode(heap', table', ret'.key).value = FTGC_HASHINDEX_UNUSED]_vars

\* what IterGetFirst(key) returns in the state
First(h, ctx, key) == ftgc_hashindex_iter_get_first(h, ctx, key).value

(* C15: after RemoveFirst(key), IterGetFirst(key) returns DELETED; an       *)
(* AddKey(key, w) on the deleted slot returns 0 and stores w in the slot,   *)
(* and IterGetFirst(key) then returns w.                                    *)

C15_TombstoneReuse ==
    [][/\ ret'.op = "RemoveFirst" =>
              First(heap', table', ret'.key) = FTGC_HASHINDEX_DELETED
       /\ ret'.op = "AddKey" /\ Slot(heap, table, ret'.key) = FTGC_HASHINDEX_DELETED =>
              /\ ret'.res = 0
              /\ Slot(heap', table', ret'.key) = ret'.val
              /\ First(heap', table', ret'.key) = ret'.val
       /\ ret'.op = "IterGetFirst" /\ ret.op = "AddKey" /\ ret.key = ret'.key
              /\ ret.res = 0 =>
              ret'.res = ret.val
       /\ ret'.op = "IterGetFirst" /\ ret.op = "RemoveFirst" /\ ret.key = ret'.key =>
              ret'.res = FTGC_HASHINDEX_DELETED]_vars

\* a value was added to the key and removed, another was added, and
\* IterGetFirst returned it from the slot
C15_Witness ==
    /\ ret.op = "IterGetFirst" /\ ret.res >= 0
    /\ ret.key \in removed
    /\ Len(ChainNodes(heap, table, ret.key)) = 1
    /\ \E v \in HashValues : v # ret.res /\ added[ret.key][v] > 0
    /\ added[ret.key][ret.res] > 0

\* the values the caller stored in the overflow chain of key
Chained(h, ctx, key) ==
    LET s == Entries(h, ctx, key) IN {s[i] : i \in CallerPlaces(s) \ {1}}

Yielded(h, ctx, key) ==
    LET s == IterAll(h, ctx, key) IN {s[i] : i \in DOMAIN s}

AllKeys == 0..(table.table_size - 1)

(* C16: RemoveFirst(key) changes only table[key], to DELETED: every other   *)
(* table slot and every chain node, the overflow chain of key included, is  *)
(* unchanged, and the values chained behind the deleted head are still      *)
(* yielded by an iteration of key.                                          *)

C16_RemoveFirstOnlySlot ==
    [][ret'.op = "RemoveFirst" =>
          /\ Slot(heap', table', ret'.key) = FTGC_HASHINDEX_DELETED
          /\ \A k \in AllKeys \ {ret'.key} : Slot(heap', table', k) = Slot(heap, table, k)
          /\ DOMAIN heap' = DOMAIN heap
          /\ \A a \in DOMAIN heap \ {table.table} : heap'[a] = heap[a]
          /\ table' = table
          /\ \A k \in AllKeys :
                 /\ ChainNodes(heap', table', k) = ChainNodes(heap, table, k)
                 /\ \A i \in DOMAIN ChainNodes(heap, table, k) :
                        NodeAt(heap', ChainNodes(heap, table, k)[i])
                            = NodeAt(heap, ChainNodes(heap, table, k)[i])
          /\ Chained(heap, table, ret'.key) \subseteq Yielded(heap', table', ret'.key)]_vars

\* RemoveFirst deleted a head that has a value chained behind it
C16_Witness ==
    /\ ret.op = "RemoveFirst"
    /\ Slot(heap, table, ret.key) = FTGC_HASHINDEX_DELETED
    /\ Chained(heap, table, ret.key) # {}
    /\ Chained(heap, table, ret.key) \subseteq Yielded(heap, table, ret.key)

\* the entries of s before the first UNUSED one
RECURSIVE UntilUnused(_)
UntilUnused(s) ==
    IF s = <<>> THEN <<>>
    ELSE IF Head(s) = FTGC_HASHINDEX_UNUSED THEN <<>>
    ELSE <<Head(s)>> \o UntilUnused(Tail(s))

NotDeleted(v) == v # FTGC_HASHINDEX_DELETED

\* a chain node that IterRemoveCurrent deleted, with a value behind it
DeletedBeforeValue(h, ctx, key) ==
    LET s == Entries(h, ctx, key)
    IN  \E i \in 2..Len(s) : \E j \in (i + 1)..Len(s) :
            s[i] = FTGC_HASHINDEX_DELETED /\ s[j] >= 0

(* C17 as claimed: an iteration of key skips nothing: it yields every entry *)
(* of the key, the DELETED chain nodes included, up to the trailing UNUSED  *)
(* node.                                                                    *)

Behind(h, node) ==
    LET nodes == ChainFrom(h, NodeAt(h, node).next)
    IN  [i \in 1..Len(nodes) |-> NodeAt(h, nodes[i]).value]

\* the entry that follows node for an iteration
Following(h, node) ==
    LET s == SelectSeq(Behind(h, node), NotDeleted)
    IN  IF s = <<>> THEN FTGC_HASHINDEX_UNUSED ELSE Head(s)

(* C18: IterRemoveCurrent, called after IterGetNext yielded a value, sets   *)
(* the value of the node yielded last to DELETED and changes nothing else:  *)
(* no node is added, unlinked or relinked, the table slots and the other    *)
(* nodes are unchanged, the iterator is unchanged, and the next IterGetNext *)
(* yields the entry that followed the removed one.                          *)

C19_TrailingNodeUnused ==
    life = "live" =>
        \A key \in AllKeys :
            /\ TrailingNode(heap, table, key).value = FTGC_HASHINDEX_UNUSED
            /\ TrailingNode(heap, table, key).next = NullNode

(* C20: a table slot only goes from UNUSED to a value by AddKey, from a     *)
(* value to DELETED by RemoveFirst and from DELETED to a value by AddKey;   *)
(* no operation changes a slot in another way, and a slot never returns to  *)
(* UNUSED while the index lives.                                            *)

C20_SlotTransitions ==
    [][life = "live" /\ life' = "live" =>
          \A k \in AllKeys :
              LET a == Slot(heap, table, k)
                  b == Slot(heap', table', k)
              IN  a # b =>
                      \/ a = FTGC_HASHINDEX_UNUSED /\ b >= 0
                            /\ ret'.op = "AddKey" /\ ret'.key = k
                      \/ a >= 0 /\ b = FTGC_HASHINDEX_DELETED
                            /\ ret'.op = "RemoveFirst" /\ ret'.key = k
                      \/ a = FTGC_HASHINDEX_DELETED /\ b >= 0
                            /\ ret'.op = "AddKey" /\ ret'.key = k]_vars

----------------------------------------------------------------------------
(* The key generators of an initialised index.  An argument is written as   *)
(* a sequence: the character codes of a string, <<value>> for an int, the   *)
(* bytes of a pointer in memory order.  called collects [op, arg, key] of   *)
(* every call that returned.                                                *)

KeyInts == {0, 1, 29, 30, -1, -30, 65536, INT_MAX, -INT_MAX - 1}

Pointers(size) ==
    IF size = 4
    THEN {<<0, 0, 0, 0>>, <<16, 32, 64, 0>>, <<240, 255, 255, 255>>}
    ELSE {<<0, 0, 0, 0, 0, 0, 0, 0>>, <<16, 32, 64, 0, 0, 0, 0, 0>>,
          <<240, 255, 1, 96, 255, 127, 0, 0>>}

KeyClients == [vert_size : {2, 3, 5, 64}, ptr_size : {4, 8}]

NoKeyRet == [op |-> "Init", arg |-> <<>>, res |-> 0]

KeyInit ==
    \E c \in KeyClients :
        LET r == ftgc_hashindex_init(EmptyHeap, c.vert_size)
        IN  /\ heap = r.heap
            /\ table = r.ctx
            /\ cfg = c
            /\ dict = NoDict
            /\ iter = NoIter
            /\ variants = <<>>
            /\ array = NULL
            /\ NoLogger
            /\ ret = NoKeyRet
            /\ last = <<>>
            /\ called = {}
            /\ added = <<>>
            /\ removed = {}
            /\ life = "live"
            /\ oom = 0
            /\ ub = {}
            /\ crashed = FALSE

KeyFrame ==
    UNCHANGED <<heap, dict, table, variants, logger, array, iter, last, added, removed, cfg, life, oom>>

Returned(op, arg, key) ==
    /\ ret' = [op |-> op, arg |-> arg, res |-> key]
    /\ called' = called \cup {[op |-> op, arg |-> arg, key |-> key]}

\* the call executes a signed overflow: the build either wraps the product
\* or traps on it
Overflowed(op, arg, key) ==
    /\ ub' = ub \cup {"signed overflow"}
    /\ \E trap \in BOOLEAN :
           /\ crashed' = trap
           /\ IF trap
              THEN ret' = [op |-> op, arg |-> arg, res |-> FTGC_HASHINDEX_UNUSED]
                   /\ called' = called
              ELSE Returned(op, arg, key)

GenerateKeyFromString(str) ==
    /\ ~crashed /\ Cardinality(called) < MaxCalls
    /\ Returned("KeyString", str, ftgc_hashindex_generate_key_string(table, str))
    /\ UNCHANGED <<ub, crashed>>
    /\ KeyFrame

GenerateKeyFromInt(value) ==
    /\ ~crashed /\ Cardinality(called) < MaxCalls
    /\ LET r == ftgc_hashindex_generate_key_int(table, Word(value))
       IN  IF r.overflow
           THEN Overflowed("KeyInt", <<value>>, r.key)
           ELSE Returned("KeyInt", <<value>>, r.key) /\ UNCHANGED <<ub, crashed>>
    /\ KeyFrame

GenerateKeyFromPointer(ptr) ==
    /\ ~crashed /\ Cardinality(called) < MaxCalls
    /\ LET r == ftgc_hashindex_generate_key_ptr(table, ptr)
       IN  IF r.overflow
           THEN Overflowed("KeyPtr", ptr, r.key)
           ELSE Returned("KeyPtr", ptr, r.key) /\ UNCHANGED <<ub, crashed>>
    /\ KeyFrame

KeyNext ==
    \/ \E str \in Keys : GenerateKeyFromString(str)
    \/ \E value \in KeyInts : GenerateKeyFromInt(value)
    \/ \E ptr \in Pointers(cfg.ptr_size) : GenerateKeyFromPointer(ptr)

KeySpec == KeyInit /\ [][KeyNext]_vars

KeyOps == {"KeyString", "KeyInt", "KeyPtr"}

(* C21: on an initialised index, GenerateKeyFromString, GenerateKeyFromInt  *)
(* and GenerateKeyFromPointer return for every input, negative ints and     *)
(* overflowing mixing steps included, a key k with 0 <= k < table_size, and *)
(* equal inputs produce equal keys.                                         *)

C22_FreeReleasesAll ==
    ret.op = "Free" /\ life = "freed" => \A a \in DOMAIN heap : ~IsLive(heap, a)

----------------------------------------------------------------------------
(* Every index of the model: the one embedded in a dictionary and the one   *)
(* used on its own, each under the operations of its client.                *)

IsDictClient == "hash_size" \in DOMAIN cfg

IndexInit == DictInit \/ HashInit

IndexNext ==
    \/ IsDictClient /\ DictNext
    \/ ~IsDictClient /\ HashNext

IndexSpec == IndexInit /\ [][IndexNext]_vars

\* the index of the behaviour
Index == IF IsDictClient THEN dict.hash_index ELSE table

(* C23: the table of an index never resizes: table_size and hash_mask set   *)
(* by Init are unchanged by every AddKey, RemoveFirst, iteration step and   *)
(* Dictionary SetString, those that grow the key and value arrays included, *)
(* so a key generated once stays the key of its string.                     *)

C23_TableNeverResizes ==
    [][life = "live" /\ life' = "live" /\ ~crashed' =>
          /\ Index'.table_size = Index.table_size
          /\ Index'.hash_mask = Index.hash_mask
          /\ Index'.table = Index.table /\ Index'.chain = Index.chain
          /\ Len(heap'[Index.table].slots) = Index.table_size
          /\ Len(heap'[Index.chain].nodes) = Index.table_size
          /\ \A str \in Keys : ftgc_hashindex_generate_key_string(Index', str)
                                   = ftgc_hashindex_generate_key_string(Index, str)]_vars

\* a dictionary whose arrays grew past the size of Init, its table as Init
\* made it
C23_Witness ==
    /\ IsDictClient /\ life = "live" /\ ~crashed
    /\ ret.op = "SetString" /\ ret.res = 1
    /\ dict.dict_size > cfg.size
    /\ dict.num_pairs > cfg.size
    /\ dict.hash_index.table_size = ftgc__pow2_roundup(cfg.size)
    /\ Len(heap[dict.hash_index.table].slots) = dict.hash_index.table_size

----------------------------------------------------------------------------
(* Two variants, var and other, as ftgc__test_variant_basic has them, and   *)
(* the strings of the caller.  An argument and a result are written as      *)
(* sequences of ints: <<v>> for a scalar or a pointer, <<hi, lo>> for an    *)
(* ftgc_uint32, the floats of a vector.                                     *)

Names == {"var", "other"}

\* the caller's strings, at the addresses Init gives them
CallerStrings == {1, 2}

Scalars ==
    [type : {FTGC_VARTYPE_VOIDPTR}, arg : {<<0>>, <<4096>>}]
    \cup [type : {FTGC_VARTYPE_BOOL}, arg : {<<0>>, <<2>>}]
    \cup [type : {FTGC_VARTYPE_SINT32}, arg : {<<-4096>>}]
    \cup [type : {FTGC_VARTYPE_UINT32}, arg : {<<0, 65280>>, <<65535, 65535>>}]
    \cup [type : {FTGC_VARTYPE_FLOAT}, arg : {<<1>>}]
    \cup [type : {FTGC_VARTYPE_VEC2}, arg : {<<1, 2>>}]
    \cup [type : {FTGC_VARTYPE_VEC3}, arg : {<<1, 2, 2>>}]

NoVarRet == [op |-> "Init", x |-> "", type |-> FTGC_VARTYPE_VOID, arg |-> <<>>,
             res |-> <<>>, ptr |-> NULL, str |-> ""]

VariantInit ==
    /\ heap = <<StrCell("Point to me"), StrCell("hello")>>
    /\ variants = [x \in Names |-> ftgc_variant_init]
    /\ cfg \in [budget : {0, MaxOom}]
    /\ dict = NoDict
    /\ table = NoTable
    /\ iter = NoIter
    /\ array = NULL
    /\ NoLogger
    /\ ret = NoVarRet
    /\ last = <<>>
    /\ called = {}
    /\ added = <<>>
    /\ removed = {}
    /\ life = "live"
    /\ oom = 0
    /\ ub = {}
    /\ crashed = FALSE

VariantFrame ==
    UNCHANGED <<dict, table, array, logger, iter, last, called, added, removed, cfg, life>>

\* the outcome r = [heap, var, ub] of a call on variant x
Written(x, r) ==
    /\ heap' = r.heap
    /\ variants' = [variants EXCEPT ![x] = r.var]
    /\ ub' = ub \cup r.ub
    /\ crashed' = (r.ub # {})

SetScalar(x, type, arg) ==
    LET v == variants[x]
    IN  CASE type = FTGC_VARTYPE_VOIDPTR -> ftgc_variant_set_void_ptr(heap, v, arg[1])
          [] type = FTGC_VARTYPE_BOOL -> ftgc_variant_set_bool(heap, v, arg[1])
          [] type = FTGC_VARTYPE_SINT32 -> ftgc_variant_set_sint32(heap, v, arg[1])
          [] type = FTGC_VARTYPE_UINT32 ->
                 ftgc_variant_set_uint32(heap, v, [hi |-> arg[1], lo |-> arg[2]])
          [] type = FTGC_VARTYPE_FLOAT -> ftgc_variant_set_float(heap, v, arg[1])
          [] type = FTGC_VARTYPE_VEC2 -> ftgc_variant_set_vec2(heap, v, arg)
          [] type = FTGC_VARTYPE_VEC3 -> ftgc_variant_set_vec3(heap, v, arg)

Set(x, type, arg) ==
    /\ ~crashed
    /\ Written(x, SetScalar(x, type, arg))
    /\ ret' = [NoVarRet EXCEPT !.op = "Set", !.x = x, !.type = type, !.arg = arg]
    /\ UNCHANGED oom
    /\ VariantFrame

\* the strings a caller can pass: its own and those the variants return
Strings ==
    (CallerStrings \cup {ftgc_variant_get_string(variants[x]) :
                            x \in {y \in Names : variants[y].field_type
                                                    = FTGC_VARTYPE_STRING}}) \ {NULL}

\* ftgc_variant_set_string(x, str): strlen and memcpy read str after
\* FTGC__VARIANT_CLEAR has freed the buffer of x
SetStringOwned(x, str) ==
    /\ ~crashed
    /\ LET c == FTGC__VARIANT_CLEAR(heap, variants[x])
       IN  IF ~IsLive(c.heap, str)
           THEN /\ heap' = c.heap
                /\ variants' = [variants EXCEPT ![x] = c.var]
                /\ ub' = ub \cup {"use_after_free"}
                /\ crashed' = TRUE
                /\ ret' = [NoVarRet EXCEPT !.op = "SetStringOwned", !.x = x,
                                           !.arg = <<str>>, !.str = heap[str].str]
                /\ UNCHANGED oom
           ELSE \E ok \in BOOLEAN :
                    LET r == ftgc_variant_set_string(heap, variants[x], heap[str].str, ok)
                    IN  /\ ~ok => oom < cfg.budget
                        /\ oom' = IF ok THEN oom ELSE oom + 1
                        /\ Written(x, r)
                        /\ ret' = [NoVarRet EXCEPT !.op = "SetStringOwned", !.x = x,
                                                   !.arg = <<str>>, !.str = heap[str].str,
                                                   !.res = <<r.ret>>]
    /\ VariantFrame

SetStringBorrowed(x, p_str) ==
    /\ ~crashed
    /\ Written(x, ftgc_variant_set_string_ptr(heap, variants[x], p_str))
    /\ ret' = [NoVarRet EXCEPT !.op = "SetStringBorrowed", !.x = x, !.arg = <<p_str>>,
                               !.str = heap[p_str].str]
    /\ UNCHANGED oom
    /\ VariantFrame

\* ftgc_variant_set_from_variant(x, other) on two distinct variants
CopyFrom(x, other) ==
    /\ ~crashed
    /\ x # other
    /\ \E ok \in BOOLEAN :
           LET r == ftgc_variant_set_from_variant(heap, variants[x], variants[other], ok)
               allocs == variants[other].field_type = FTGC_VARTYPE_STRING
                             /\ variants[other].internal_storage # NULL
           IN  /\ ~ok => allocs /\ oom < cfg.budget
               /\ oom' = IF ok THEN oom ELSE oom + 1
               /\ Written(x, r)
               /\ ret' = [NoVarRet EXCEPT !.op = "CopyFrom", !.x = x, !.arg = <<>>,
                                          !.res = <<IF ok THEN 1 ELSE 0>>]
    /\ VariantFrame

VariantFree(x) ==
    /\ ~crashed
    /\ Written(x, ftgc_variant_free(heap, variants[x]))
    /\ ret' = [NoVarRet EXCEPT !.op = "Free", !.x = x]
    /\ UNCHANGED oom
    /\ VariantFrame

\* what the getter of the tag of v returns
GetMember(v) ==
    CASE v.field_type = FTGC_VARTYPE_VOIDPTR -> <<ftgc_variant_get_void_ptr(v)>>
      [] v.field_type = FTGC_VARTYPE_BOOL -> <<ftgc_variant_get_bool(v)>>
      [] v.field_type = FTGC_VARTYPE_SINT32 -> <<ftgc_variant_get_sint32(v)>>
      [] v.field_type = FTGC_VARTYPE_UINT32 -> <<ftgc_variant_get_uint32(v)>>
      [] v.field_type = FTGC_VARTYPE_FLOAT -> <<ftgc_variant_get_float(v)>>
      [] v.field_type = FTGC_VARTYPE_VEC2 -> ftgc_variant_get_vec2(v)
      [] v.field_type = FTGC_VARTYPE_VEC3 -> ftgc_variant_get_vec3(v)
      [] OTHER -> <<>>

\* the string a caller reads through p
ReadStr(h, p) ==
    IF p = NULL THEN NullStr ELSE IF IsLive(h, p) THEN h[p].str ELSE "(freed)"

\* the getter of the tag of x
GetValue(x) ==
    /\ ~crashed
    /\ variants[x].field_type # FTGC_VARTYPE_VOID
    /\ LET v == variants[x]
           p == IF v.field_type = FTGC_VARTYPE_STRING
                THEN ftgc_variant_get_string(v) ELSE NULL
       IN  /\ ret' = [NoVarRet EXCEPT !.op = "Get", !.x = x, !.type = v.field_type,
                                      !.res = GetMember(v), !.ptr = p,
                                      !.str = ReadStr(heap, p)]
           /\ ub' = IF p # NULL /\ ~IsLive(heap, p) THEN ub \cup {"use_after_free"} ELSE ub
           /\ crashed' = (p # NULL /\ ~IsLive(heap, p))
    /\ UNCHANGED <<heap, variants, oom>>
    /\ VariantFrame

VariantNext ==
    \/ \E x \in Names : \E s \in Scalars : Set(x, s.type, s.arg)
    \/ \E x \in Names : \E str \in Strings : SetStringOwned(x, str)
    \/ \E x \in Names : \E p_str \in CallerStrings : SetStringBorrowed(x, p_str)
    \/ \E x \in Names : \E other \in Names : CopyFrom(x, other)
    \/ \E x \in Names : VariantFree(x)
    \/ \E x \in Names : GetValue(x)

VariantSpec == VariantInit /\ [][VariantNext]_vars

\* what GetX returns for SetX(arg), as the claim has it
RoundTrip(type, arg) ==
    IF type = FTGC_VARTYPE_BOOL THEN <<IF arg[1] # 0 THEN 1 ELSE 0>> ELSE arg

\* the int res is the ftgc_uint32 <<hi, lo>>
SameUint32(res, arg) == res[1] >= 0 /\ Word(res[1]) = [hi |-> arg[1], lo |-> arg[2]]

(* C24: SetX(v) followed by GetX returns v with the tag X (SetBool stores   *)
(* 1 for a non-zero argument); SetStringOwned(s) then GetString returns a   *)
(* string equal to s at another address; SetStringBorrowed(p) then          *)
(* GetString returns p.                                                     *)

C24_RoundTrip ==
    [][ret'.op = "Get" /\ ret'.x = ret.x /\ ~crashed' =>
          /\ ret.op = "Set" =>
                 /\ ret'.type = ret.type
                 /\ IF ret.type = FTGC_VARTYPE_UINT32
                    THEN SameUint32(ret'.res, ret.arg)
                    ELSE ret'.res = RoundTrip(ret.type, ret.arg)
          /\ ret.op = "SetStringOwned" /\ ret.res = <<1>> =>
                 /\ ret'.type = FTGC_VARTYPE_STRING
                 /\ ret'.str = ret.str
                 /\ ret'.ptr # ret.arg[1]
          /\ ret.op = "SetStringBorrowed" =>
                 /\ ret'.type = FTGC_VARTYPE_STRING
                 /\ ret'.ptr = ret.arg[1]
                 /\ ret'.str = ret.str]_vars

\* the variant holds a string buffer of its own
Owns(v) == v.field_type = FTGC_VARTYPE_STRING /\ v.internal_storage # NULL

Owners == {x \in Names : Owns(variants[x])}

LiveBuffers == {a \in DOMAIN heap : IsLive(heap, a)} \ CallerStrings

(* C25: over any sequence of Set, SetStringOwned, SetStringBorrowed,        *)
(* CopyFrom and Free on initialised variants with no allocation failure, no *)
(* buffer is freed twice or read after it was freed, a borrowed string is   *)
(* never freed, and the live buffers are exactly those owned by the         *)
(* variants whose tag is String, one variant each.                          *)

C25_BuffersFreedOnce ==
    oom = 0 =>
        /\ ub = {} /\ ~crashed
        /\ \A p \in CallerStrings : IsLive(heap, p)
        /\ LiveBuffers = {variants[x].internal_storage : x \in Owners}
        /\ \A x \in Owners : \A y \in Owners :
               variants[x].internal_storage = variants[y].internal_storage => x = y

(* C26: in every state of a variant, tag String implies that exactly one of *)
(* the borrowed pointer and the owned buffer is set, and any other tag,     *)
(* Void after Init or Free included, implies that no owned buffer is        *)
(* attached.                                                                *)

C26_OneStorage ==
    ~crashed =>
        \A x \in Names :
            LET v == variants[x]
            IN  /\ v.field_type = FTGC_VARTYPE_STRING =>
                       (v.external_storage # NULL) # (v.internal_storage # NULL)
                /\ v.field_type = FTGC_VARTYPE_VOID =>
                       v.external_storage = NULL /\ v.internal_storage = NULL
                /\ v.field_type # FTGC_VARTYPE_STRING =>
                       FTGC__VARIANT_CLEAR(heap, v).heap = heap

(* C27: when the allocation of the buffer fails, SetStringOwned returns     *)
(* failure and leaves the variant with tag Void and no payload, the buffer  *)
(* it owned before released.                                                *)

C27_FailureLeavesVoid ==
    [][ret'.op = "SetStringOwned" /\ ret'.res = <<0>> =>
          /\ variants'[ret'.x] = ftgc_variant_init
          /\ Owns(variants[ret'.x]) => ~IsLive(heap', variants[ret'.x].internal_storage)]_vars

Other(x) == CHOOSE y \in Names : y # x

\* the string a String variant holds
StringOf(h, v) == ReadStr(h, ftgc_variant_get_string(v))

(* C28: after CopyFrom(dst, src) on distinct variants dst has the tag and   *)
(* the value of src; when src owns a string buffer, dst owns another buffer *)
(* with equal content, so a later Set, Free or CopyFrom on one of the two   *)
(* leaves the value of the other unchanged and readable.                    *)

C28_CopyIsDeep ==
    [][ret'.op \in {"CopyFrom", "Set", "SetStringOwned", "SetStringBorrowed", "Free"}
         /\ ~crashed' =>
          LET dst == variants'[ret'.x]
              src == variants[Other(ret'.x)]
          IN  /\ ret'.op = "CopyFrom" /\ ret'.res = <<1>> =>
                     /\ dst.field_type = src.field_type
                     /\ IF Owns(src)
                        THEN /\ Owns(dst)
                             /\ dst.internal_storage # src.internal_storage
                             /\ dst.external_storage = NULL
                             /\ IsLive(heap', dst.internal_storage)
                             /\ StringOf(heap', dst) = StringOf(heap, src)
                        ELSE dst = src
              /\ variants'[Other(ret'.x)] = src
              /\ src.field_type = FTGC_VARTYPE_STRING /\ ftgc_variant_get_string(src) # NULL =>
                     /\ IsLive(heap', ftgc_variant_get_string(src))
                     /\ StringOf(heap', src) = StringOf(heap, src)]_vars

\* CopyFrom copied an owned string: two buffers, equal content
C28_Witness ==
    /\ ret.op = "CopyFrom" /\ ret.res = <<1>> /\ ~crashed
    /\ Owns(variants[ret.x]) /\ Owns(variants[Other(ret.x)])
    /\ variants[ret.x].internal_storage # variants[Other(ret.x)].internal_storage
    /\ StringOf(heap, variants[ret.x]) = StringOf(heap, variants[Other(ret.x)])
    /\ StringOf(heap, variants[ret.x]) = "hello"

----------------------------------------------------------------------------
(* The growable array: a handle that is NULL or points behind the two       *)
(* housekeeping words (capacity, count) of one heap block.                  *)

\* successful appends allowed on one handle
MaxElems == 5

\* largest n of Init(n) and Reserve(n)
MaxReserve == 2

\* an element slot realloc handed out and nobody wrote
Indeterminate == 0

ArrayValues == {1, 2}

ArrCell(size, count, elems) ==
    Cell([kind |-> "array", size |-> size, count |-> count, elems |-> elems])

ftgc__array_size(h, a) == h[a].size

ftgc_array_count(h, a) == IF a # NULL THEN h[a].count ELSE 0

ftgc__array_test_needs_to_grow(h, a, n) ==
    a = NULL \/ ftgc_array_count(h, a) + n > ftgc__array_size(h, a)

ftgc__default_new_elem_count(old_elem_count, incr_elems) ==
    LET expand_new_elem_count == (old_elem_count * 3) \div 2
        min_new_elem_count == old_elem_count + incr_elems
    IN  IF min_new_elem_count > expand_new_elem_count
        THEN min_new_elem_count
        ELSE expand_new_elem_count

\* the first n elements of a block resized to n elements
Resized(elems, n) ==
    [i \in 1..n |-> IF i <= Len(elems) THEN elems[i] ELSE Indeterminate]

\* FTGC_REALLOC(p, n elements) that succeeds: [heap, ptr]
ArrayRealloc(h, p, n, moved) ==
    LET old == IF p = NULL THEN ArrCell(0, 0, <<>>) ELSE h[p]
        new == [old EXCEPT !.elems = Resized(old.elems, n)]
        q == IF p = NULL \/ moved THEN NewAddr(h) ELSE p
    IN  [heap |-> Release(Store(h, q, new), IF q = p THEN NULL ELSE p), ptr |-> q]

\* the housekeeping words of a block that had old_elem_count elements
ftgc__array_housekeeping_reset(cell, old_elem_count) ==
    [cell EXCEPT !.size = 0, !.count = 0]

ftgc__array_housekeeping(cell, old_elem_count) ==
    IF old_elem_count = 0 THEN [cell EXCEPT !.size = 0, !.count = 0] ELSE cell

\* the capacity recorded by a growth to new_elem_count elements
ftgc__array_new_size_allocated(size, incr_elems, new_elem_count) == new_elem_count

ftgc__array_new_size(size, incr_elems, new_elem_count) == size + incr_elems

\* [heap, array, aborted]; ok: the realloc succeeds; moved: it moves the block
ftgc__array_grow(h, a, incr_elems, asserts, ok, moved) ==
    LET old_elem_count == IF a # NULL THEN ftgc__array_size(h, a) ELSE 0
        new_elem_count == ftgc__default_new_elem_count(old_elem_count, incr_elems)
        holds == new_elem_count > 0 /\ new_elem_count > old_elem_count /\ incr_elems > 0
    IN  IF asserts /\ ~holds THEN [heap |-> h, array |-> a, aborted |-> TRUE]
        ELSE IF ~ok THEN [heap |-> h, array |-> a, aborted |-> asserts]
        ELSE LET r == ArrayRealloc(h, a, new_elem_count, moved)
                 kept == ftgc__array_housekeeping(r.heap[r.ptr], old_elem_count)
                 cell == [kept EXCEPT
                              !.size = ftgc__array_new_size(kept.size, incr_elems,
                                                            new_elem_count)]
             IN  [heap |-> Store(r.heap, r.ptr, cell), array |-> r.ptr, aborted |-> FALSE]

\* (a)[ftgc__array_raw(a)[1]++] = (d): [heap, ub]
ArrayStore(h, a, d) ==
    IF a = NULL THEN [heap |-> h, ub |-> {"null_dereference"}]
    ELSE LET c == h[a]
             at == c.count + 1
         IN  IF at > Len(c.elems)
             THEN [heap |-> [h EXCEPT ![a].count = at], ub |-> {"heap_overflow"}]
             ELSE [heap |-> [h EXCEPT ![a].count = at, ![a].elems[at] = d], ub |-> {}]

ftgc_array_free(h, a) ==
    IF a # NULL THEN [heap |-> Release(h, a), array |-> NULL]
    ELSE [heap |-> h, array |-> a]

ArrayClients == [asserts : BOOLEAN, budget : {0, MaxOom}]

NoArrRet == [op |-> "Declare", n |-> 0, d |-> 0, grew |-> FALSE]

\* the program declares a handle and has appended nothing
ArrayDeclared ==
    /\ heap = EmptyHeap
    /\ array = NULL
    /\ NoLogger
    /\ cfg \in ArrayClients
    /\ dict = NoDict
    /\ table = NoTable
    /\ iter = NoIter
    /\ variants = <<>>
    /\ ret = NoArrRet
    /\ last = <<>>
    /\ called = {}
    /\ added = <<>>
    /\ removed = {}
    /\ life = "live"
    /\ oom = 0
    /\ ub = {}
    /\ crashed = FALSE

ArrayFrame == UNCHANGED <<dict, table, variants, logger, iter, last, called, removed, cfg, life>>

\* a call of ftgc__array_grow by incr_elems on handle a
Grow(a, incr_elems, r) ==
    \E ok \in BOOLEAN : \E moved \in BOOLEAN :
        /\ ~ok => oom < cfg.budget
        /\ ~ok \/ a = NULL => ~moved
        /\ r = ftgc__array_grow(heap, a, incr_elems, cfg.asserts, ok, moved)
        /\ oom' = IF ok \/ r.aborted THEN oom ELSE oom + 1

\* ftgc_array_init(a, n)
ArrayInit(n) ==
    /\ ~crashed
    /\ array = NULL
    /\ \E r \in UNION {{ftgc__array_grow(heap, NULL, n, cfg.asserts, ok, FALSE)} :
                           ok \in BOOLEAN} :
           /\ Grow(NULL, n, r)
           /\ heap' = r.heap
           /\ array' = r.array
           /\ crashed' = r.aborted
    /\ added' = <<>>
    /\ ret' = [NoArrRet EXCEPT !.op = "Init", !.n = n, !.grew = TRUE]
    /\ UNCHANGED ub
    /\ ArrayFrame

\* ftgc_array_reserve(a, n)
ArrayReserve(n) ==
    /\ ~crashed
    /\ array # NULL
    /\ ftgc__array_size(heap, array) + n <= MaxElems + MaxReserve
    /\ \E r \in UNION {{ftgc__array_grow(heap, array, n, cfg.asserts, ok, moved)} :
                           ok \in BOOLEAN, moved \in BOOLEAN} :
           /\ Grow(array, n, r)
           /\ heap' = r.heap
           /\ array' = r.array
           /\ crashed' = r.aborted
    /\ ret' = [NoArrRet EXCEPT !.op = "Reserve", !.n = n, !.grew = TRUE]
    /\ UNCHANGED <<added, ub>>
    /\ ArrayFrame

\* ftgc_array_append(a, d)
ArrayAppend(d) ==
    /\ ~crashed
    /\ ftgc_array_count(heap, array) < MaxElems
    /\ LET grows == ftgc__array_test_needs_to_grow(heap, array, 1)
       IN  \E r \in {[heap |-> heap, array |-> array, aborted |-> FALSE]} \cup
                    UNION {{ftgc__array_grow(heap, array, 1, cfg.asserts, ok, moved)} :
                               ok \in BOOLEAN, moved \in BOOLEAN} :
               /\ IF grows THEN Grow(array, 1, r)
                  ELSE r = [heap |-> heap, array |-> array, aborted |-> FALSE]
                       /\ UNCHANGED oom
               /\ array' = r.array
               /\ IF r.aborted
                  THEN heap' = r.heap /\ crashed' = TRUE /\ UNCHANGED <<ub, added>>
                  ELSE LET w == ArrayStore(r.heap, r.array, d)
                       IN  /\ heap' = w.heap
                           /\ ub' = ub \cup w.ub
                           /\ IF w.ub = {} THEN crashed' = FALSE
                              ELSE crashed' \in
                                       IF r.array = NULL THEN {TRUE} ELSE BOOLEAN
                           /\ added' = IF oom' = oom THEN Append(added, d) ELSE added
               /\ ret' = [NoArrRet EXCEPT !.op = "Append", !.d = d, !.grew = grows]
    /\ ArrayFrame

\* ftgc_array_free(a)
ArrayFree ==
    /\ ~crashed
    /\ LET r == ftgc_array_free(heap, array)
       IN  heap' = r.heap /\ array' = r.array
    /\ added' = <<>>
    /\ ret' = [NoArrRet EXCEPT !.op = "Free"]
    /\ UNCHANGED <<oom, ub, crashed>>
    /\ ArrayFrame

ArrayNext ==
    \/ \E n \in 0..MaxReserve : ArrayInit(n)
    \/ \E n \in 1..MaxReserve : ArrayReserve(n)
    \/ \E d \in ArrayValues : ArrayAppend(d)
    \/ ArrayFree

ArraySpec == ArrayDeclared /\ [][ArrayNext]_vars

\* the handle holds exactly the values appended to it, in order
ArrayHolds(h, a, values) ==
    /\ ftgc_array_count(h, a) = Len(values)
    /\ a = NULL => values = <<>>
    /\ a # NULL =>
           /\ IsLive(h, a)
           /\ ftgc__array_size(h, a) >= ftgc_array_count(h, a)
           /\ Len(h[a].elems) >= ftgc__array_size(h, a)
           /\ \A i \in 1..Len(values) : h[a].elems[i] = values[i]

(* C29: on a handle that was NULL or set by Init(n), after N Appends whose  *)
(* reallocations all succeeded the count is N, the capacity is at least the *)
(* count in every state on the way, and element i is the i-th appended      *)
(* value, reallocations included; a NULL handle is an empty array, with     *)
(* count 0, and Free of it does nothing.                                    *)

C29_AppendsKept ==
    [][oom' = 0 /\ ~crashed' =>
          /\ ArrayHolds(heap', array', added')
          /\ ret'.op = "Append" => added' = Append(added, ret'.d)
          /\ ret'.op = "Free" /\ array = NULL => heap' = heap /\ array' = NULL]_vars

\* five appends of both values on a block that realloc moved
C29_Witness ==
    /\ oom = 0 /\ ~crashed
    /\ ret.op = "Append" /\ ret.grew
    /\ Len(added) = MaxElems
    /\ {added[i] : i \in 1..Len(added)} = ArrayValues
    /\ array # NULL /\ array # NewAddr(EmptyHeap)
    /\ ArrayHolds(heap, array, added)

\* the capacity of the handle, 0 for NULL
Capacity(h, a) == IF a = NULL THEN 0 ELSE ftgc__array_size(h, a)

(* C30: Init(n) gives count 0 and capacity n; an Append below the capacity  *)
(* leaves the capacity unchanged; an Append on a full array raises the      *)
(* recorded capacity by exactly 1, so capacity equals count after it.       *)

C30_CapacitySteps ==
    [][oom' = 0 /\ ~crashed' =>
          /\ ret'.op = "Init" =>
                 /\ array' # NULL
                 /\ ftgc_array_count(heap', array') = 0
                 /\ Capacity(heap', array') = ret'.n
          /\ ret'.op = "Append" /\ ~ret'.grew =>
                 Capacity(heap', array') = Capacity(heap, array)
          /\ ret'.op = "Append" /\ ret'.grew =>
                 /\ Capacity(heap', array') = Capacity(heap, array) + 1
                 /\ Capacity(heap', array') = ftgc_array_count(heap', array')]_vars

\* an Append grew a full array of 4 to 5, where 1.5 times the old capacity is 6
C30_Witness ==
    /\ oom = 0 /\ ~crashed
    /\ ret.op = "Append" /\ ret.grew
    /\ array # NULL
    /\ Capacity(heap, array) = 5
    /\ ftgc_array_count(heap, array) = 5
    /\ Len(heap[array].elems) = 6

\* a growth of the array whose reallocation succeeded
Grew == ret'.op \in {"Append", "Reserve"} /\ ret'.grew /\ oom' = oom /\ ~crashed'

\* the elements an Append or a Reserve asks for
Requested(r) == IF r.op = "Append" THEN 1 ELSE r.n

(* C31: when Append or Reserve grows an array, the new capacity is          *)
(* max(floor(1.5 * old), old + requested) elements, old being the capacity  *)
(* before the growth, and it is strictly greater than the old capacity.     *)

C31_GrowthFormula ==
    [][Grew /\ oom' = 0 =>
          LET old == Capacity(heap, array)
              new == Capacity(heap', array')
          IN  /\ new = ftgc__default_new_elem_count(old, Requested(ret'))
              /\ new > old]_vars

\* the reallocation of this Append failed and the program went on
AppendFailed == ret'.op = "Append" /\ ret'.grew /\ oom' = oom + 1

(* C32: if the reallocation fails during Append the array is left           *)
(* unmodified: same handle, count, capacity and elements, so count is at    *)
(* most the capacity and nothing is written outside the capacity.           *)

C32_FailedAppendKeepsArray ==
    [][AppendFailed =>
          /\ array' = array
          /\ heap' = heap
          /\ ub' = ub
          /\ ftgc_array_count(heap', array') <= Capacity(heap', array')]_vars

----------------------------------------------------------------------------
(* The index called with any key: the assertions that open                  *)
(* ftgc_hashindex_remove_first and ftgc_hashindex_iter_get_first, and the   *)
(* access of ctx->table[key] that follows them.                             *)

\* FTGC__ASSERT(key <= ctx->table_size); FTGC__ASSERT(key >= 0);
KeyAsserted(ctx, key) == key <= ctx.table_size /\ key >= 0

\* ctx->table[key] is an element of the table
InTable(ctx, key) == key \in 0..(ctx.table_size - 1)

\* the keys a caller passes: the table, one before it, two behind it
AnyKeys == -1..(table.table_size + 1)

PreconditionInit ==
    \E c \in HashClients : \E asserts \in BOOLEAN :
        LET r == ftgc_hashindex_init(EmptyHeap, c.vert_size)
        IN  /\ heap = r.heap
            /\ table = r.ctx
            /\ cfg = c @@ [asserts |-> asserts]
            /\ dict = NoDict
            /\ iter = NoIter
            /\ variants = <<>>
            /\ array = NULL
            /\ NoLogger
            /\ ret = NoHashRet
            /\ last = <<>>
            /\ called = {}
            /\ added = [k \in c.keys |-> [v \in HashValues |-> 0]]
            /\ removed = {}
            /\ life = "live"
            /\ oom = 0
            /\ ub = {}
            /\ crashed = FALSE

PreconditionFrame ==
    UNCHANGED <<dict, table, variants, logger, array, last, called, added, cfg, life, oom>>

\* the program runs on: no assertion stopped it, its behaviour is defined
Defined == ~crashed /\ ub = {}

\* the assertion fires and the program stops
AssertionFails(op, key) ==
    /\ ret' = [NoHashRet EXCEPT !.op = op, !.key = key, !.fails = {"assert"}]
    /\ crashed' = TRUE
    /\ UNCHANGED <<heap, iter, removed, ub>>

\* ftgc_hashindex_remove_first(ctx, key) for any key
RemoveFirstAt(key) ==
    /\ life = "live"
    /\ IF cfg.asserts /\ ~KeyAsserted(table, key) THEN AssertionFails("RemoveFirst", key)
       ELSE /\ ret' = [NoHashRet EXCEPT !.op = "RemoveFirst", !.key = key]
            /\ IF InTable(table, key)
               THEN /\ heap' = ftgc_hashindex_remove_first(heap, table, key)
                    /\ removed' = removed \cup {key}
                    /\ UNCHANGED <<ub, crashed>>
               ELSE /\ ub' = ub \cup {"out_of_bounds_write"}
                    /\ crashed' \in BOOLEAN
                    /\ UNCHANGED <<heap, removed>>
            /\ UNCHANGED iter
    /\ PreconditionFrame

\* ftgc_hashindex_iter_get_first(ctx, iter, key) for any key
IterGetFirstAt(key) ==
    /\ life = "live"
    /\ IF cfg.asserts /\ ~KeyAsserted(table, key) THEN AssertionFails("IterGetFirst", key)
       ELSE IF InTable(table, key)
       THEN LET r == ftgc_hashindex_iter_get_first(heap, table, key)
            IN  /\ iter' = r.iter
                /\ ret' = [NoHashRet EXCEPT !.op = "IterGetFirst", !.key = key,
                                            !.res = r.value]
                /\ UNCHANGED <<heap, removed, ub, crashed>>
       ELSE /\ iter' = [current_node |-> [blk |-> table.chain, off |-> key],
                        prev_node |-> NullNode]
            /\ \E value \in {FTGC_HASHINDEX_UNUSED, FTGC_HASHINDEX_DELETED} \cup HashValues :
                   ret' = [NoHashRet EXCEPT !.op = "IterGetFirst", !.key = key,
                                            !.res = value]
            /\ ub' = ub \cup {"out_of_bounds_read"}
            /\ crashed' \in BOOLEAN
            /\ UNCHANGED <<heap, removed>>
    /\ PreconditionFrame

PreconditionNext ==
    \/ \E key \in cfg.keys : \E value \in cfg.vals : Defined /\ Adds < MaxCalls /\ AddKey(key, value)
    \/ \E key \in AnyKeys : Defined /\ RemoveFirstAt(key)
    \/ \E key \in AnyKeys : Defined /\ IterGetFirstAt(key)

PreconditionSpec == PreconditionInit /\ [][PreconditionNext]_vars

(* C33: RemoveFirst and IterGetFirst called with a key outside              *)
(* [0, table_size) reach the precondition assertion before the table is     *)
(* read or written, for every such key, key = table_size and negative keys  *)
(* included.                                                                *)

C33_OutOfRangeFailsFast ==
    [][ret'.op \in {"RemoveFirst", "IterGetFirst"} /\ ~InTable(table, ret'.key) =>
          /\ ret'.fails = {"assert"}
          /\ heap' = heap
          /\ ub' = ub]_vars

----------------------------------------------------------------------------
(* Key generation on an index that ftgc_hashindex_free has reset, as the    *)
(* end of ftgc__test_hashindex_basic does.                                  *)

\* ftgc_hashindex_free(&table) of the key generation client
KeyFree ==
    /\ ~crashed /\ life = "live"
    /\ LET r == ftgc_hashindex_free(heap, table)
       IN  heap' = r.heap /\ table' = r.ctx
    /\ life' = "freed"
    /\ ret' = [NoKeyRet EXCEPT !.op = "Free"]
    /\ UNCHANGED <<dict, variants, logger, array, iter, last, called, added, removed, cfg, oom,
                    ub, crashed>>

FreedKeyNext ==
    \/ KeyNext
    \/ KeyFree

FreedKeySpec == KeyInit /\ [][FreedKeyNext]_vars

\* void *ptr = NULL, in the bytes of the build
NullPointer == [i \in 1..cfg.ptr_size |-> 0]

(* C34: GenerateKeyFromPointer applied to a NULL pointer on an index that   *)
(* was freed (table_size and hash_mask are 0) returns a key different from  *)
(* 0, as ftgc__test_hashindex_basic asserts.                                *)

C34_NullPointerKeyNotZero ==
    ret.op = "KeyPtr" /\ ret.arg = NullPointer /\ life = "freed" /\ ~crashed => ret.res # 0

----------------------------------------------------------------------------
(* The allocation logger of alloc2log.c: the wrappers malloc and free that  *)
(* the instrumented program calls from its threads, and a2l_log_frames,     *)
(* which toggles the shared flag a2l__malloc_logging around its own         *)
(* allocations. Every access of the flag is one step; nothing locks it.     *)

\* nested calls of a2l_log_frames explored on one thread
MaxDepth == 2

LogThreads == {"main", "worker"}

Wrappers == {"malloc", "free"}

\* a call on the stack of a thread; call is the number of the program's call
\* it serves and internal tells that the logger itself issued it
Frame(fn, pc, call, internal) == [fn |-> fn, pc |-> pc, call |-> call, internal |-> internal]

Stack(t) == threads[t].stack

Top(t) == Stack(t)[Len(Stack(t))]

Running(t, fn, pcs) == Stack(t) # <<>> /\ Top(t).fn = fn /\ Top(t).pc \in pcs

\* the stack of t with its top frame at pc
Moved(t, pc) == [Stack(t) EXCEPT ![Len(Stack(t))].pc = pc]

Popped(stack, n) == SubSeq(stack, 1, Len(stack) - n)

\* calls of a2l_log_frames on the stack of t
LogDepth(t) == Cardinality({i \in DOMAIN Stack(t) : Stack(t)[i].fn = "a2l_log_frames"})

Issued == threads["main"].issued + threads["worker"].issued

NoLogRet == [op |-> "Load", thread |-> "", fn |-> ""]

\* the library is loaded and a2l_initialize has run
LoggerInit ==
    /\ a2l__malloc_logging = 1
    /\ threads = [t \in LogThreads |-> [stack |-> <<>>, issued |-> 0]]
    /\ log = {}
    /\ heap = EmptyHeap
    /\ dict = NoDict
    /\ table = NoTable
    /\ iter = NoIter
    /\ variants = <<>>
    /\ array = NULL
    /\ cfg = [threads |-> LogThreads]
    /\ ret = NoLogRet
    /\ last = <<>>
    /\ called = {}
    /\ added = <<>>
    /\ removed = {}
    /\ life = "live"
    /\ oom = 0
    /\ ub = {}
    /\ crashed = FALSE

LoggerFrame ==
    UNCHANGED <<heap, dict, table, variants, array, iter, last, called, added, removed, cfg,
                life, oom, ub, crashed>>

Did(op, t, fn) == ret' = [op |-> op, thread |-> t, fn |-> fn]

\* the program calls malloc or free from thread t
ProgramCalls(t, fn) ==
    /\ Stack(t) = <<>>
    /\ Issued < MaxCalls
    /\ threads' = [threads EXCEPT ![t].issued = @ + 1,
                                  ![t].stack = <<Frame(fn, "check", threads[t].issued + 1,
                                                       FALSE)>>]
    /\ Did("Call", t, fn)
    /\ UNCHANGED <<a2l__malloc_logging, log>>
    /\ LoggerFrame

\* if (!a2l__malloc_logging) return a2l_real.malloc(size) / a2l_real.free(ptr);
\* otherwise the wrapper goes on to a2l_log_frames
WrapperChecks(t) ==
    /\ Running(t, "malloc", {"check"}) \/ Running(t, "free", {"check"})
    /\ IF a2l__malloc_logging = 0
       THEN threads' = [threads EXCEPT ![t].stack = Popped(Stack(t), 1)]
       ELSE /\ LogDepth(t) < MaxDepth
            /\ threads' = [threads EXCEPT ![t].stack =
                               Append(Moved(t, "logged"),
                                      Frame("a2l_log_frames", "disable", Top(t).call,
                                            Top(t).internal))]
    /\ Did(IF a2l__malloc_logging = 0 THEN "Forward" ELSE "Log", t, Top(t).fn)
    /\ UNCHANGED <<a2l__malloc_logging, log>>
    /\ LoggerFrame

\* a2l__disable_malloc_logging(), before backtrace_symbols and before free
Disable(t) ==
    /\ Running(t, "a2l_log_frames", {"disable", "disable_free"})
    /\ a2l__malloc_logging' = 0
    /\ threads' = [threads EXCEPT ![t].stack =
                       Moved(t, IF Top(t).pc = "disable" THEN "symbols" ELSE "release")]
    /\ Did("Disable", t, "a2l_log_frames")
    /\ UNCHANGED log
    /\ LoggerFrame

\* backtrace_symbols allocates the array of descriptions with malloc
BacktraceSymbols(t) ==
    /\ Running(t, "a2l_log_frames", {"symbols"})
    /\ threads' = [threads EXCEPT ![t].stack =
                       Append(Moved(t, "enable"),
                              Frame("malloc", "check", Top(t).call, TRUE))]
    /\ Did("Symbols", t, "malloc")
    /\ UNCHANGED <<a2l__malloc_logging, log>>
    /\ LoggerFrame

\* a2l__enable_malloc_logging(); the second one ends a2l_log_frames, and the
\* wrapper that called it returns
Enable(t) ==
    /\ Running(t, "a2l_log_frames", {"enable", "enable_free"})
    /\ a2l__malloc_logging' = 1
    /\ threads' = [threads EXCEPT ![t].stack =
                       IF Top(t).pc = "enable" THEN Moved(t, "write")
                       ELSE Popped(Stack(t), 2)]
    /\ Did(IF Top(t).pc = "enable" THEN "Enable" ELSE "Return", t, "a2l_log_frames")
    /\ UNCHANGED log
    /\ LoggerFrame

\* the log with one more record r; equal records are told apart by number,
\* their order in the file is not kept
Logged(l, r) == l \cup {r @@ [nth |-> 1 + Cardinality({x \in l : \A f \in DOMAIN r : x[f] = r[f]})]}

\* a2l_logstr(buf): one record for the call that is logged
LogStr(t) ==
    /\ Running(t, "a2l_log_frames", {"write"})
    /\ log' = Logged(log, [thread |-> t, call |-> Top(t).call,
                            fn |-> Stack(t)[Len(Stack(t)) - 1].fn,
                            internal |-> Top(t).internal])
    /\ threads' = [threads EXCEPT ![t].stack = Moved(t, "disable_free")]
    /\ Did("LogStr", t, Stack(t)[Len(Stack(t)) - 1].fn)
    /\ UNCHANGED a2l__malloc_logging
    /\ LoggerFrame

\* free(trace_frames_desc)
ReleaseSymbols(t) ==
    /\ Running(t, "a2l_log_frames", {"release"})
    /\ threads' = [threads EXCEPT ![t].stack =
                       Append(Moved(t, "enable_free"),
                              Frame("free", "check", Top(t).call, TRUE))]
    /\ Did("Release", t, "free")
    /\ UNCHANGED <<a2l__malloc_logging, log>>
    /\ LoggerFrame

LoggerNext ==
    \/ \E t \in LogThreads : \E fn \in Wrappers : ProgramCalls(t, fn)
    \/ \E t \in LogThreads : WrapperChecks(t)
    \/ \E t \in LogThreads : Disable(t)
    \/ \E t \in LogThreads : BacktraceSymbols(t)
    \/ \E t \in LogThreads : Enable(t)
    \/ \E t \in LogThreads : LogStr(t)
    \/ \E t \in LogThreads : ReleaseSymbols(t)

LoggerSpec == LoggerInit /\ [][LoggerNext]_vars

\* the records of the log for the n-th call of the program on thread t
Records(t, n) ==
    {r \in log : r.thread = t /\ r.call = n /\ ~r.internal}

\* the calls of the program on thread t that have returned
Completed(t) ==
    {n \in 1..threads[t].issued : n < threads[t].issued \/ Stack(t) = <<>>}

(* C35: every malloc and every free the instrumented program issues        *)
(* produces exactly one log record, under every interleaving of the threads *)
(* that call malloc and free.                                               *)

C35_OneRecordPerCall ==
    \A t \in LogThreads : \A n \in Completed(t) : Cardinality(Records(t, n)) = 1

\* thread t is in a2l_log_frames on behalf of a call the logger issued itself
Reentered(t) ==
    \E i \in DOMAIN Stack(t) : Stack(t)[i].fn = "a2l_log_frames" /\ Stack(t)[i].internal

(* C36: a malloc or free made inside a2l_log_frames in its sections with    *)
(* logging disabled (by backtrace_symbols, by the release of the symbol     *)
(* array) goes straight to the real allocator, writes no record and does    *)
(* not enter a2l_log_frames again, and logging is enabled when              *)
(* a2l_log_frames returns, under every interleaving of the threads.         *)

C36_GuardedCallsForwarded ==
    [][/\ \A t \in LogThreads : ~Reentered(t)'
       /\ \A r \in log' : ~r.internal
       /\ ret'.op = "Return" => a2l__malloc_logging' = 1]_vars

----------------------------------------------------------------------------
(* The index again: what a table slot says about its overflow chain.        *)

(* C37: in every state reached without allocation failure, when table[key]  *)
(* is UNUSED the overflow chain of key holds no value of a caller, it is    *)
(* only the trailing UNUSED node; so a lookup that stops as soon as         *)
(* IterGetFirst returns UNUSED misses no stored entry.                      *)

C37_UnusedSlotEmptyChain ==
    life = "live" /\ oom = 0 =>
        \A key \in AllKeys :
            Slot(heap, table, key) = FTGC_HASHINDEX_UNUSED =>
                /\ Chained(heap, table, key) = {}
                /\ Len(ChainNodes(heap, table, key)) = 1
                /\ TrailingNode(heap, table, key).value = FTGC_HASHINDEX_UNUSED
                /\ \A v \in HashValues : ~Held(heap, table, key, v)

\* the iterator once the iteration that got value from it returned UNUSED
RECURSIVE IterEnd(_, _, _)
IterEnd(h, it, value) ==
    IF value = FTGC_HASHINDEX_UNUSED THEN it
    ELSE LET n == ftgc_hashindex_iter_get_next(h, it)
         IN  IterEnd(h, n.iter, n.value)

\* the calls IterGetFirst, IterGetNext, ... on key, the one that returns
\* UNUSED included
IterCalls(h, ctx, key) == Len(IterAll(h, ctx, key)) + 1

(* C38: in every reachable state of the index and for every key, the calls  *)
(* IterGetFirst, IterGetNext, IterGetNext, ... return UNUSED after at most  *)
(* one call per chain node plus one for the table slot, and every further   *)
(* IterGetNext on that iterator returns UNUSED again.                       *)

C38_IterationTerminates ==
    life = "live" =>
        \A key \in AllKeys :
            LET f == ftgc_hashindex_iter_get_first(heap, table, key)
                end == IterEnd(heap, f.iter, f.value)
                n1 == ftgc_hashindex_iter_get_next(heap, end)
                n2 == ftgc_hashindex_iter_get_next(heap, n1.iter)
            IN  /\ IterCalls(heap, table, key) <= Len(ChainNodes(heap, table, key)) + 1
                /\ n1.value = FTGC_HASHINDEX_UNUSED
                /\ n2.value = FTGC_HASHINDEX_UNUSED
                /\ n2.iter = n1.iter

\* s is the beginning of t
IsPrefix(s, t) == Len(s) <= Len(t) /\ \A i \in DOMAIN s : s[i] = t[i]

\* the values of callers in the chain nodes from the iterator on
Ahead(h, it) ==
    LET nodes == ChainFrom(h, it.current_node)
    IN  {NodeAt(h, nodes[i]).value : i \in DOMAIN nodes} \ 
            {FTGC_HASHINDEX_UNUSED, FTGC_HASHINDEX_DELETED}

\* the values the iterator yields from here on, until UNUSED
StillYielded(h, it) ==
    LET n == ftgc_hashindex_iter_get_next(h, it)
        s == IterRest(h, n.iter, n.value)
    IN  {s[i] : i \in DOMAIN s}

(* C39: the overflow chain is append-only. AddKey, RemoveFirst and          *)
(* IterRemoveCurrent never unlink, reorder or free a chain node, so a chain *)
(* never gets shorter; AddKey puts a new value only into the trailing node  *)
(* and never into a node that was tombstoned (DELETED); and the iterator    *)
(* the caller holds across such a call points at no released memory and     *)
(* still yields every value that is in the chain ahead of it.               *)

C39_ChainAppendOnly ==
    [][life = "live" /\ ret'.op \in {"AddKey", "RemoveFirst", "IterRemoveCurrent"} =>
          /\ \A k \in AllKeys :
                 LET old == ChainNodes(heap, table, k)
                     new == ChainNodes(heap', table', k)
                 IN  /\ IsPrefix(old, new)
                     /\ \A i \in DOMAIN old : IsLive(heap', old[i].blk)
                     /\ ret'.op = "AddKey" =>
                            \A i \in DOMAIN old :
                                LET was == NodeAt(heap, old[i]).value
                                    is == NodeAt(heap', old[i]).value
                                IN  was # is =>
                                        /\ i = Len(old)
                                        /\ was # FTGC_HASHINDEX_DELETED
          /\ iter' = iter
          /\ iter.current_node # NullNode => IsLive(heap', iter.current_node.blk)
          /\ iter.prev_node # NullNode => IsLive(heap', iter.prev_node.blk)
          /\ Ahead(heap', iter') \subseteq StillYielded(heap', iter')]_vars


(* C40: after SetString calls that all succeeded, on keys that fit the key  *)
(* buffer, num_pairs <= dict_size, and the values held by the embedded      *)
(* hash index are exactly the slot indices 0 .. num_pairs - 1, every one    *)
(* held once, in the table slot or the chain of the hash of the key stored  *)
(* in that slot of the dictionary.                                          *)

\* no call returned 0: no allocation failed, or the ones that did failed in
\* the call just made, which returned 1
AllSucceeded ==
    \/ oom = 0
    \/ ret.op = "SetString" /\ ret.res = 1 /\ oom = Cardinality(ret.fails)

\* the places (table key, position) of the hash index that hold value
Registered(h, ctx, value) ==
    UNION {LET s == Entries(h, ctx, k)
           IN  {<<k, j>> : j \in {i \in CallerPlaces(s) : s[i] = value}} :
           k \in 0..(ctx.table_size - 1)}

C40_IndexMatchesSlots ==
    Readable /\ AllSucceeded /\ (\A k \in called : Fits(k)) =>
        LET idx == dict.hash_index
        IN  /\ dict.num_pairs <= dict.dict_size
            /\ \A i \in 0..(dict.num_pairs - 1) :
                   /\ Cardinality(Registered(heap, idx, i)) = 1
                   /\ \A p \in Registered(heap, idx, i) :
                          p[1] = ftgc_hashindex_generate_key_string(idx, StoredKey(i))
            /\ \A k \in 0..(idx.table_size - 1) :
                   LET s == Entries(heap, idx, k)
                   IN  \A j \in CallerPlaces(s) : s[j] < dict.num_pairs


\* the dictionary grew to hold five keys that fit, two of them share a table
\* slot of the hash index, and the last call registered its slot
C40_Witness ==
    /\ Readable /\ AllSucceeded /\ (\A k \in called : Fits(k))
    /\ ret.op = "SetString" /\ ret.res = 1
    /\ dict.num_pairs = 5 /\ dict.dict_size = 4 + FTGC_DICT_KEY_BYTES
    /\ \E k \in 0..(dict.hash_index.table_size - 1) :
           Chained(heap, dict.hash_index, k) # {}
    /\ \A i \in 0..(dict.num_pairs - 1) :
           Cardinality(Registered(heap, dict.hash_index, i)) = 1

====
